---- MODULE Spec2Model ----
(***************************************************************************)
(* Liquidity manager of the loop client.                                   *)
(*                                                                         *)
(* Three parts of the repository are modelled:                             *)
(*   - the control-loop manager (Manager.Run / run / UpdateParameters /    *)
(*     SuggestSwap), with the Go heap of Parameters structs and RatioRule  *)
(*     objects made explicit so that pointer sharing is part of the state; *)
(*   - the lock-based manager (GetParameters / SetParameters /             *)
(*     SuggestSwaps under paramsLock), with the ChannelRules maps and the  *)
(*     ThresholdRule objects on an explicit heap;                          *)
(*   - the pure rule functions, evaluated on inputs drawn from bounded     *)
(*     sets.                                                               *)
(*                                                                         *)
(* Ratios (float32 in the source) are fixed-point numbers in hundredths:   *)
(* 0.2 is 20 and 1 is One.  On such inputs float32 comparison and          *)
(* addition agree with the exact arithmetic used here.                     *)
(***************************************************************************)
EXTENDS Integers, Sequences, FiniteSets, TLC

(***************************************************************************)
(* Bounds of the model.                                                    *)
(***************************************************************************)
\* Calls of UpdateParameters and SuggestSwap made in one behaviour.
MaxCalls == 2
\* Writes of the callers into their own structs and rules in one behaviour.
MaxMutations == 1
\* The calls made in the specifications of the suggestions: one more than
\* MaxCalls, for a call that follows an update and a suggestion request.
MaxSuggestCalls == 3

(***************************************************************************)
(* Program constants.                                                      *)
(***************************************************************************)
\* The float 1 of RatioRule.validate, in hundredths.
One == 100
\* The nil pointer.
NIL == 0

Callers == {"c1", "c2"}
Runners == {"r1", "r2", "r3"}

\* The Parameters values a caller builds (<<>> is a nil rule): a node rule, a
\* peer rule, both rules at once (ErrSingleRule), a node rule whose thresholds
\* sum to exactly 1 (ErrInvalidRatioSum), and no rule at all.
ParameterChoices ==
    { [NodeRule |-> <<[MinimumInbound |-> 20, MinimumOutbound |-> 20]>>,
       PeerRule |-> <<>>, IncludePrivate |-> FALSE],
      [NodeRule |-> <<>>,
       PeerRule |-> <<[MinimumInbound |-> 30, MinimumOutbound |-> 30]>>,
       IncludePrivate |-> TRUE],
      [NodeRule |-> <<[MinimumInbound |-> 20, MinimumOutbound |-> 20]>>,
       PeerRule |-> <<[MinimumInbound |-> 30, MinimumOutbound |-> 30]>>,
       IncludePrivate |-> FALSE],
      [NodeRule |-> <<[MinimumInbound |-> 60, MinimumOutbound |-> 40]>>,
       PeerRule |-> <<>>, IncludePrivate |-> FALSE],
      [NodeRule |-> <<>>, PeerRule |-> <<>>, IncludePrivate |-> FALSE] }

\* Values a caller writes into a threshold of a rule object it can reach.
MutationValues == {90}

\* Percentages a caller writes into a threshold of a ThresholdRule.
ThresholdMutationValues == {95}

\* The heap of the control-loop manager has room for every object a
\* behaviour allocates: a call allocates at most the struct the caller
\* builds, with its two rule objects, the copy UpdateParameters stores and
\* the copy it returns, and no behaviour makes more than MaxSuggestCalls
\* calls.
MaxParamObjs == 3 * MaxSuggestCalls
MaxRuleObjs == 2 * MaxSuggestCalls
PAddrs == 1..MaxParamObjs
RAddrs == 1..MaxRuleObjs

VARIABLES
    \* ---- control-loop manager (Manager struct)
    started,        \* Manager.started
    mparams,        \* Manager.params: pointer to a Parameters struct, or NIL
    done,           \* Manager.done is closed
    loop,           \* position of the goroutine executing run
    cur,            \* caller whose request run is handling, if any
    request,        \* request.params of the request run is handling
    runCtx,         \* the context handed to Run is cancelled
    loopsEntered,   \* number of calls of Run that entered run
    \* ---- Go heap
    pheap,          \* Parameters structs, by address
    rheap,          \* RatioRule objects, by address
    \* ---- callers of UpdateParameters / SuggestSwap
    pc,             \* position of each caller
    kind,           \* the call a caller is in: "update", "lookup", "suggest"
    arg,            \* the Parameters struct a caller built (its params)
    creq,           \* requestParameters of the call (pointer or NIL)
    resp,           \* the call's responseChan (capacity 1)
    ret,            \* the pointer the last call returned
    retRule,        \* Rule of the *SwapSuggestion SuggestSwap last returned
    err,            \* the error the last call returned
    ctx,            \* the context of the call a caller is in is cancelled
    \* ---- callers of Run
    rpc,            \* position of each caller of Run
    rafter,         \* the call of Run was made after run had exited
    \* ---- history of the control-loop manager
    served,         \* run received the request of the caller's current call
    applied,        \* run stored the parameters of the caller's current call
    cancelledAt,    \* where the call was when it returned ctx.Err()
    invalidCall,    \* the parameters of the current call failed validation
    storedVal,      \* value of the parameters applied by the last update
    sugSnap,        \* value of the stored parameters when run accepted cur
    extCalls,       \* external calls made for the caller's suggestion request
    order,          \* the order in which calls began and requests were served
    \* ---- lock-based manager (Manager struct)
    lparams,        \* Manager.params: a Parameters struct, held by value
    paramsLock,     \* Manager.paramsLock: its holder, or "free"
    \* ---- Go heap of the lock-based manager
    mheap,          \* ChannelRules maps, by address
    theap,          \* ThresholdRule objects, by address
    \* ---- callers of GetParameters / SetParameters / SuggestSwaps
    lpc,            \* position of each caller
    lop,            \* the call a caller made last
    lP,             \* the Parameters value a caller built (<<>>: none yet)
    lreq,           \* the params argument of the call of SetParameters
    lgot,           \* the Parameters value GetParameters returned last
    lerr,           \* the error the last call returned
    \* ---- history of the lock-based manager
    lsnap,          \* value of the stored parameters when SuggestSwaps began
    lext,           \* external calls of the caller's SuggestSwaps that returned
    lnoRules,       \* SuggestSwaps found no rule configured
    linvalid,       \* the parameters of the current call failed validation
    lastSetVal,     \* value of P at the last successful SetParameters(P)
    gotVal,         \* value GetParameters returned, when it returned
    expectVal,      \* lastSetVal when GetParameters returned
    \* ---- local variables and results of SuggestSwaps, by caller
    lallSwaps,      \* allSwaps: what cfg.ListSwaps returned
    leligible,      \* the eligible channels the loop has yet to read
    lscan,          \* the maps getEligibleChannels built before it asked lnd
    lsuggestion,    \* the suggestion a quote is asked for
    lsugg,          \* suggestions, and what the call returned once it did
    ltent,          \* the suggestions a quote was obtained for, and whether
                    \* checkFeeLimits accepted it
    \* ---- pure functions
    ruleIn,         \* MinimumInbound of the rule handed to validate
    ruleOut,        \* MinimumOutbound of the rule handed to validate
    validated,      \* what RatioRule.validate returned, "none" before it ran
    clockNow,       \* cfg.Clock.Now(), in units of time
    allSwaps,       \* the existing swaps handed to getEligibleChannels
    listedChannels, \* what cfg.Lnd.ListChannels returns, in listing order
    listFails,      \* cfg.Lnd.ListChannels returns an error
    eligible,       \* what getEligibleChannels returned last
    scanned,        \* the call of getEligibleChannels that waits for lnd
    surpluses,      \* the channels argument of selectSingleSwap
    amount,         \* the amount argument of selectSingleSwap
    minSwapAmount,  \* the minSwapAmount argument of selectSingleSwap
    maxSwapAmount,  \* the maxSwapAmount argument of selectSingleSwap
    selected,       \* what selectSingleSwap returned, once it was called,
                    \* and the channels as they were passed to it
    feeParams,      \* the fee limits of m.params when checkFeeLimits runs
    quote,          \* the swap fee, miner fee and prepay quoted by the server
    suggestionAmt,  \* suggestion.Amount handed to checkFeeLimits
    feeErr,         \* what checkFeeLimits returned, "none" before it ran
    swapBalances,   \* the balances argument of shouldSwap
    swapMinIn,      \* the minInbound argument of shouldSwap
    swapMinOut,     \* the minOutbound argument of shouldSwap
    decision,       \* what shouldSwap returned, once it was called
    shifts,         \* the calls of calculateSwapRatio made so far
    balanceList,    \* the channelBalances argument of getSwaps
    swapRule,       \* the RatioRule that getSwaps is called on
    restrictOut,    \* the outRestrictions argument of getSwaps
    restrictIn,     \* the inRestrictions argument of getSwaps
    swapSet,        \* the evaluation of getSwaps, once it was called
    scopeParams,    \* m.params when suggestSwaps is called: <<>> for nil
    scopeChannels,  \* the channels argument of suggestSwaps
    scopeResult,    \* what suggestSwaps returned, once it was called
    \* ---- the program
    impl,           \* the manager the program is built with
    calls,          \* calls made so far
    muts            \* caller writes made so far

\* The state of the control-loop manager and of its callers.
loopState == <<started, mparams, done, loop, cur, request, runCtx,
               loopsEntered, pheap, rheap, pc, kind, arg, creq, resp, ret,
               retRule, err, ctx, rpc, rafter, served, applied, cancelledAt,
               invalidCall, storedVal, sugSnap, extCalls, order>>

\* The local variables and results of the calls of SuggestSwaps.
suggestState == <<lallSwaps, leligible, lscan, lsuggestion, lsugg, ltent>>

\* The state of the lock-based manager and of its callers.
lockState == <<lparams, paramsLock, mheap, theap, lpc, lop, lP, lreq, lgot,
               lerr, lsnap, lext, lnoRules, linvalid, lastSetVal, gotVal,
               expectVal, suggestState>>

\* The inputs and results of the pure functions.
validateState == <<ruleIn, ruleOut, validated>>
eligibleState ==
    <<clockNow, allSwaps, listedChannels, listFails, eligible, scanned>>
selectState == <<surpluses, amount, minSwapAmount, maxSwapAmount, selected>>
feeState == <<feeParams, quote, suggestionAmt, feeErr>>
shouldState == <<swapBalances, swapMinIn, swapMinOut, decision>>
swapsState == <<balanceList, swapRule, restrictOut, restrictIn, swapSet>>
scopeState == <<scopeParams, scopeChannels, scopeResult>>
ratioState == <<shouldState, shifts, swapsState, scopeState>>
pureState == <<validateState, eligibleState, selectState, feeState,
               ratioState>>

vars == <<impl, loopState, lockState, pureState, calls, muts>>

(***************************************************************************)
(* Rules and their validation.                                             *)
(***************************************************************************)
RatioRule_validate_sumAboveOne(r) ==
    IF r.MinimumInbound < 0 \/ r.MinimumInbound > One
    THEN "ErrInvalidLiquidityRatio"
    ELSE IF r.MinimumOutbound < 0 \/ r.MinimumOutbound > One
    THEN "ErrInvalidLiquidityRatio"
    ELSE IF r.MinimumInbound + r.MinimumOutbound > One
    THEN "ErrInvalidRatioSum"
    ELSE "nil"

\* RatioRule.validate: "nil" or the error returned.
RatioRule_validate(r) ==
    IF r.MinimumInbound < 0 \/ r.MinimumInbound > One
    THEN "ErrInvalidLiquidityRatio"
    ELSE IF r.MinimumOutbound < 0 \/ r.MinimumOutbound > One
    THEN "ErrInvalidLiquidityRatio"
    ELSE IF r.MinimumInbound + r.MinimumOutbound >= One
    THEN "ErrInvalidRatioSum"
    ELSE "nil"

Parameters_validate_noSingleRule(p, rh) ==
    IF p.NodeRule # NIL /\ RatioRule_validate(rh[p.NodeRule]) # "nil"
    THEN RatioRule_validate(rh[p.NodeRule])
    ELSE IF p.PeerRule # NIL /\ RatioRule_validate(rh[p.PeerRule]) # "nil"
    THEN RatioRule_validate(rh[p.PeerRule])
    ELSE "nil"

\* Parameters.validate of the control-loop manager, on a Parameters struct p
\* whose rule pointers refer to the rule heap rh.
Parameters_validate(p, rh) ==
    IF p.NodeRule # NIL /\ p.PeerRule # NIL
    THEN "ErrSingleRule"
    ELSE IF p.NodeRule # NIL /\ RatioRule_validate(rh[p.NodeRule]) # "nil"
    THEN RatioRule_validate(rh[p.NodeRule])
    ELSE IF p.PeerRule # NIL /\ RatioRule_validate(rh[p.PeerRule]) # "nil"
    THEN RatioRule_validate(rh[p.PeerRule])
    ELSE "nil"

ValidationErrors == {"ErrSingleRule", "ErrInvalidLiquidityRatio",
                     "ErrInvalidRatioSum"}

(***************************************************************************)
(* The heap.                                                               *)
(***************************************************************************)
\* The lowest address of all that is not in use.
NewAddr(used, all) ==
    CHOOSE a \in all : a \notin used /\ \A b \in all : b < a => b \in used

\* The value of a rule pointer: <<>> for nil, else the thresholds.
RuleVal(a, rh) == IF a = NIL THEN <<>>
                  ELSE <<rh[a].MinimumInbound, rh[a].MinimumOutbound>>

\* The value of a Parameters pointer, following its rule pointers.
ParamsVal(a, ph, rh) ==
    IF a = NIL THEN <<>>
    ELSE <<RuleVal(ph[a].NodeRule, rh), RuleVal(ph[a].PeerRule, rh),
           ph[a].IncludePrivate>>

\* The pointers held in the response channels.
RespPtrs(rs) == {rs[c][1].ptr : c \in {x \in Callers : rs[x] # <<>>}}

\* The rules of the suggestions held in the response channels.
RespRules(rs) == {rs[c][1].rule : c \in {x \in Callers : rs[x] # <<>>}}

\* The heap after the step: what the roots of the next state reach of the
\* heaps ph and rh.  The roots are the manager's params, each caller's
\* structs and suggestion, and the pointers in flight.
HeapAfter(ph, rh) ==
    LET liveP == ({mparams', request'} \cup {arg'[c] : c \in Callers}
                  \cup {creq'[c] : c \in Callers}
                  \cup {ret'[c] : c \in Callers}
                  \cup RespPtrs(resp')) \ {NIL}
        liveR == ({ph[a].NodeRule : a \in liveP}
                  \cup {ph[a].PeerRule : a \in liveP}
                  \cup {retRule'[c] : c \in Callers}
                  \cup RespRules(resp')) \ {NIL}
    IN  /\ pheap' = [a \in liveP |-> ph[a]]
        /\ rheap' = [a \in liveR |-> rh[a]]

\* The rule objects a caller reaches: through its structs, and the Rule of
\* the suggestion it was returned.
ReachableRules(c) ==
    LET ps == {arg[c], ret[c]} \ {NIL}
    IN  ({pheap[a].NodeRule : a \in ps} \cup {pheap[a].PeerRule : a \in ps}
         \cup {retRule[c]}) \ {NIL}

NoResponse == <<>>
ParamsResponse(p) == <<[ptr |-> p, err |-> "nil", rule |-> NIL]>>
SuggestResponse(e, r) == <<[ptr |-> NIL, err |-> e, rule |-> r]>>

\* run is in its select and handles no request.
NoCaller == "none"

(***************************************************************************)
(* NewManager of the control-loop manager.                                 *)
(***************************************************************************)
NewManager ==
    /\ started = 0
    /\ mparams = NIL
    /\ done = FALSE
    /\ loop = "notStarted"
    /\ cur = NoCaller
    /\ request = NIL
    /\ runCtx = FALSE
    /\ loopsEntered = 0
    /\ pheap = [a \in {} |-> NIL]
    /\ rheap = [a \in {} |-> NIL]
    /\ pc = [c \in Callers |-> "idle"]
    /\ kind = [c \in Callers |-> "update"]
    /\ arg = [c \in Callers |-> NIL]
    /\ creq = [c \in Callers |-> NIL]
    /\ resp = [c \in Callers |-> NoResponse]
    /\ ret = [c \in Callers |-> NIL]
    /\ retRule = [c \in Callers |-> NIL]
    /\ err = [c \in Callers |-> "none"]
    /\ ctx = [c \in Callers |-> FALSE]
    /\ rpc = [r \in Runners |-> "idle"]
    /\ rafter = [r \in Runners |-> FALSE]
    /\ served = [c \in Callers |-> FALSE]
    /\ applied = [c \in Callers |-> FALSE]
    /\ cancelledAt = [c \in Callers |-> "none"]
    /\ invalidCall = [c \in Callers |-> FALSE]
    /\ storedVal = <<>>
    /\ sugSnap = <<>>
    /\ extCalls = [c \in Callers |-> 0]

\* The program runs the control-loop manager, and the process has not ended:
\* while the goroutine in run panics the other goroutines go on, until the
\* runtime ends the process.
Alive == impl = "loop" /\ loop # "crashed"

(***************************************************************************)
(* Callers writing into their own values.  A caller does this between      *)
(* calls, as a sequential Go program does.                                 *)
(***************************************************************************)
\* rule.MinimumInbound = v or rule.MinimumOutbound = v, on a rule object the
\* caller reaches through the struct it passed, the struct it was returned or
\* the suggestion it was returned.
MutateRule(c, a, f, v) ==
    /\ Alive
    /\ pc[c] = "idle"
    /\ muts < MaxMutations
    /\ a \in ReachableRules(c)
    /\ rheap[a][f] # v
    /\ rheap' = [rheap EXCEPT ![a][f] = v]
    /\ muts' = muts + 1
    /\ UNCHANGED <<started, mparams, done, loop, cur, request, runCtx,
                   loopsEntered, pheap, pc, kind, arg, creq, resp, ret,
                   retRule, err, ctx, rpc, rafter, served, cancelledAt,
                   invalidCall, storedVal, sugSnap, extCalls, calls, applied,
                   order, impl, lockState, pureState>>

\* p.NodeRule = x, p.PeerRule = x or p.IncludePrivate = x on the struct the
\* caller passed (arg) or on the struct it was returned (ret); x is nil or a
\* rule the caller reaches.
MutateParameters(c, p, f, x) ==
    /\ Alive
    /\ pc[c] = "idle"
    /\ muts < MaxMutations
    /\ p \in {arg[c], ret[c]} \ {NIL}
    /\ \/ f \in {"NodeRule", "PeerRule"} /\ x \in ReachableRules(c) \cup {NIL}
       \/ f = "IncludePrivate" /\ x \in BOOLEAN
    /\ pheap[p][f] # x
    /\ UNCHANGED <<mparams, arg, creq, ret, retRule, resp, request>>
    /\ HeapAfter([pheap EXCEPT ![p][f] = x], rheap)
    /\ muts' = muts + 1
    /\ UNCHANGED <<started, done, loop, cur, runCtx, loopsEntered, pc,
                   kind, err, ctx, rpc, rafter, served, cancelledAt,
                   invalidCall, storedVal, sugSnap, extCalls, calls, applied,
                   order, impl, lockState, pureState>>

(***************************************************************************)
(* Manager.UpdateParameters.                                               *)
(***************************************************************************)
\* The history of the order of requests, kept in the behaviours that observe
\* it: the callers in the order in which their calls began, the calls, by
\* their position in that order, in the order in which run received their
\* requests, and with each the value of the parameters of the most recently
\* applied update once run had handled it.
Unobserved ==
    [observed |-> FALSE, began |-> <<>>, received |-> <<>>, stored |-> <<>>]
Observed ==
    [observed |-> TRUE, began |-> <<>>, received |-> <<>>, stored |-> <<>>]

Began(c) ==
    IF order.observed THEN [order EXCEPT !.began = Append(@, c)] ELSE order

\* The position of the current call of the caller c.
RequestOf(c) ==
    CHOOSE i \in 1..Len(order.began) :
        /\ order.began[i] = c
        /\ \A j \in (i + 1)..Len(order.began) : order.began[j] # c

\* run received the request of the current call of the caller c.
Received(c) ==
    IF order.observed
    THEN [order EXCEPT !.received = Append(@, RequestOf(c))]
    ELSE order

\* run is past the store of the request it received last, with v the value
\* of the parameters of the most recently applied update.
Stored(v) ==
    IF order.observed THEN [order EXCEPT !.stored = Append(@, v)] ELSE order

\* run received a request that stores nothing.
Served(c) ==
    IF order.observed
    THEN [order EXCEPT !.received = Append(@, RequestOf(c)),
                       !.stored = Append(@, storedVal)]
    ELSE order

\* The value of the parameters of the most recently applied update when run
\* had handled the request of the current call of the caller c.
StoredFor(c) ==
    LET i == CHOOSE k \in 1..Len(order.received) :
                 order.received[k] = RequestOf(c)
    IN  order.stored[i]

\* What every call resets: its context and the history kept of it.
BeginCall(c, k) ==
    /\ Alive
    /\ pc[c] = "idle"
    /\ calls < MaxCalls
    /\ calls' = calls + 1
    /\ kind' = [kind EXCEPT ![c] = k]
    /\ ctx' = [ctx EXCEPT ![c] = FALSE]
    /\ served' = [served EXCEPT ![c] = FALSE]
    /\ applied' = [applied EXCEPT ![c] = FALSE]
    /\ cancelledAt' = [cancelledAt EXCEPT ![c] = "none"]
    /\ extCalls' = [extCalls EXCEPT ![c] = 0]
    /\ order' = Began(c)

UpdateParameters_skipValidate(c, params, ph, rh) ==
    /\ LET e == IF params = NIL THEN "nil"
                ELSE Parameters_validate(ph[params], rh)
           p == NewAddr(DOMAIN ph, PAddrs)
       IN  /\ invalidCall' = [invalidCall EXCEPT ![c] = e # "nil"]
           /\ pc' = [pc EXCEPT ![c] = "enqueue"]
           /\ err' = [err EXCEPT ![c] = "pending"]
           /\ creq' = [creq EXCEPT ![c] = IF params = NIL THEN NIL ELSE p]
           /\ UNCHANGED <<mparams, request, ret, retRule>>
           /\ resp' = [resp EXCEPT ![c] = NoResponse]
           /\ HeapAfter(IF params = NIL THEN ph
                        ELSE ph @@ (p :> ph[params]), rh)

\* UpdateParameters(ctx, params) up to its first select, on the heap ph, rh
\* that holds the caller's struct: validation, and the copy of *params.
UpdateParameters(c, params, ph, rh) ==
    /\ LET e == IF params = NIL THEN "nil"
                ELSE Parameters_validate(ph[params], rh)
           p == NewAddr(DOMAIN ph, PAddrs)
       IN  /\ invalidCall' = [invalidCall EXCEPT ![c] = e # "nil"]
           /\ IF e # "nil"
              THEN \* return nil, err
                   /\ pc' = [pc EXCEPT ![c] = "idle"]
                   /\ err' = [err EXCEPT ![c] = e]
                   /\ ret' = [ret EXCEPT ![c] = NIL]
                   /\ creq' = [creq EXCEPT ![c] = NIL]
                   /\ UNCHANGED <<mparams, request, retRule>>
                   /\ resp' = [resp EXCEPT ![c] = NoResponse]
                   /\ HeapAfter(ph, rh)
              ELSE \* paramCopy := *params; requestParameters = &paramCopy
                   /\ pc' = [pc EXCEPT ![c] = "enqueue"]
                   /\ err' = [err EXCEPT ![c] = "pending"]
                   /\ creq' = [creq EXCEPT ![c] = IF params = NIL THEN NIL
                                                  ELSE p]
                   /\ UNCHANGED <<mparams, request, ret, retRule>>
                   /\ resp' = [resp EXCEPT ![c] = NoResponse]
                   /\ HeapAfter(IF params = NIL THEN ph
                                ELSE ph @@ (p :> ph[params]), rh)

\* A caller builds a fresh Parameters struct with fresh rule objects
\* (NewRatioRule) holding the value v and calls UpdateParameters with it.
Call_UpdateParameters(c, v) ==
    /\ BeginCall(c, "update")
    /\ LET nr == v.NodeRule
           pr == v.PeerRule
           a1 == NewAddr(DOMAIN rheap, RAddrs)
           a2 == NewAddr(DOMAIN rheap \cup {a1}, RAddrs)
           rh == rheap @@ (IF nr = <<>> THEN <<>> ELSE a1 :> nr[1])
                       @@ (IF pr = <<>> THEN <<>> ELSE a2 :> pr[1])
           p  == NewAddr(DOMAIN pheap, PAddrs)
           ph == pheap @@ (p :> [NodeRule |-> IF nr = <<>> THEN NIL ELSE a1,
                                 PeerRule |-> IF pr = <<>> THEN NIL ELSE a2,
                                 IncludePrivate |-> v.IncludePrivate])
       IN  /\ arg' = [arg EXCEPT ![c] = p]
           /\ UpdateParameters(c, p, ph, rh)
    /\ UNCHANGED <<started, done, loop, cur, runCtx, loopsEntered,
                   rpc, rafter, storedVal, sugSnap, muts, impl, lockState,
                   pureState>>

\* A caller calls UpdateParameters with the struct it already holds.
Call_UpdateParameters_again(c) ==
    /\ BeginCall(c, "update")
    /\ arg[c] # NIL
    /\ UNCHANGED arg
    /\ UpdateParameters(c, arg[c], pheap, rheap)
    /\ UNCHANGED <<started, done, loop, cur, runCtx, loopsEntered,
                   rpc, rafter, storedVal, sugSnap, muts, impl, lockState,
                   pureState>>

\* A caller calls UpdateParameters with nil parameters: a lookup of the
\* current parameters.
Call_UpdateParameters_nil(c) ==
    /\ BeginCall(c, "lookup")
    /\ UNCHANGED arg
    /\ UpdateParameters(c, NIL, pheap, rheap)
    /\ UNCHANGED <<started, done, loop, cur, runCtx, loopsEntered,
                   rpc, rafter, storedVal, sugSnap, muts, impl, lockState,
                   pureState>>

\* The second select of UpdateParameters, case newParams := <-responseChan.
UpdateParameters_response(c) ==
    /\ Alive
    /\ pc[c] = "await"
    /\ kind[c] \in {"update", "lookup"}
    /\ resp[c] # NoResponse
    /\ LET newParams == resp[c][1].ptr
           p == NewAddr(DOMAIN pheap, PAddrs)
       IN  /\ IF newParams = NIL
              THEN /\ err' = [err EXCEPT ![c] = "ErrNoParameters"]
                   /\ ret' = [ret EXCEPT ![c] = NIL]
              ELSE \* newCopy := *newParams; return &newCopy, nil
                   /\ err' = [err EXCEPT ![c] = "nil"]
                   /\ ret' = [ret EXCEPT ![c] = p]
           /\ resp' = [resp EXCEPT ![c] = NoResponse]
           /\ UNCHANGED <<mparams, arg, creq, request, retRule>>
           /\ HeapAfter(IF newParams = NIL THEN pheap
                        ELSE pheap @@ (p :> pheap[newParams]), rheap)
    /\ pc' = [pc EXCEPT ![c] = "idle"]
    /\ ctx' = [ctx EXCEPT ![c] = FALSE]
    /\ UNCHANGED <<started, done, loop, cur, runCtx, loopsEntered, kind, rpc,
                   rafter, served, cancelledAt, invalidCall, storedVal,
                   sugSnap, extCalls, calls, muts, applied, order, impl,
                   lockState, pureState>>

(***************************************************************************)
(* Manager.SuggestSwap.                                                    *)
(***************************************************************************)
\* The call up to its first select.
SuggestSwap(c) ==
    /\ BeginCall(c, "suggest")
    /\ pc' = [pc EXCEPT ![c] = "enqueue"]
    /\ err' = [err EXCEPT ![c] = "pending"]
    /\ invalidCall' = [invalidCall EXCEPT ![c] = FALSE]
    /\ resp' = [resp EXCEPT ![c] = NoResponse]
    /\ UNCHANGED <<started, mparams, done, loop, cur, request, runCtx,
                   loopsEntered, pheap, rheap, arg, creq, ret, retRule, rpc,
                   rafter, storedVal, sugSnap, muts, impl, lockState,
                   pureState>>

\* The second select of SuggestSwap, case resp := <-responseChan: return
\* resp.swapSet, resp.err.  The caller holds the suggestion from here on, and
\* with it the rule that its Rule field points to.
SuggestSwap_response(c) ==
    /\ Alive
    /\ pc[c] = "await"
    /\ kind[c] = "suggest"
    /\ resp[c] # NoResponse
    /\ err' = [err EXCEPT ![c] = resp[c][1].err]
    /\ retRule' = [retRule EXCEPT ![c] = resp[c][1].rule]
    /\ resp' = [resp EXCEPT ![c] = NoResponse]
    /\ UNCHANGED <<mparams, request, arg, creq, ret>>
    /\ HeapAfter(pheap, rheap)
    /\ pc' = [pc EXCEPT ![c] = "idle"]
    /\ ctx' = [ctx EXCEPT ![c] = FALSE]
    /\ UNCHANGED <<started, done, loop, cur, runCtx, loopsEntered, kind, rpc,
                   rafter, served, cancelledAt, invalidCall, storedVal,
                   sugSnap, extCalls, calls, muts, applied, order, impl,
                   lockState, pureState>>

(***************************************************************************)
(* The select cases both calls share.                                      *)
(***************************************************************************)
\* The caller's context is cancelled while the call is in a select.
CancelContext(c) ==
    /\ Alive
    /\ pc[c] \in {"enqueue", "await"}
    /\ ~ctx[c]
    /\ ctx' = [ctx EXCEPT ![c] = TRUE]
    /\ UNCHANGED <<started, mparams, done, loop, cur, request, runCtx,
                   loopsEntered, pheap, rheap, pc, kind, arg, creq, resp, ret,
                   retRule, err, rpc, rafter, served, cancelledAt, invalidCall,
                   storedVal, sugSnap, extCalls, calls, muts, applied, order,
                   impl, lockState, pureState>>

\* The request that run is handling once its caller has returned: run still
\* holds the reply slot of the request, and nothing will read it.
Abandoned == "abandoned"

\* cur once the caller c has returned from the select it was in: the call
\* leaves the request that run is handling for it behind.
HandledFor(c) ==
    IF /\ pc[c] = "await"
       /\ cur = c
       /\ loop \in {"paramRequests", "response", "ListChannels",
                    "suggestSwaps"}
    THEN Abandoned
    ELSE cur

\* request.response <- reply can proceed: the slot has capacity one, is made
\* for the request and is written by run alone, so it is empty unless it is
\* that of the caller's current call and holds a reply.
ReplySlotFree == cur \in Callers => resp[cur] = NoResponse

\* The reply slots after request.response <- reply: that of an abandoned
\* request is held by no caller.
Reply(reply) ==
    IF cur \in Callers THEN [resp EXCEPT ![cur] = reply] ELSE resp

\* case <-ctx.Done(): return nil, ctx.Err(), in either select.
Select_ctxDone(c) ==
    /\ Alive
    /\ pc[c] \in {"enqueue", "await"}
    /\ ctx[c]
    /\ pc' = [pc EXCEPT ![c] = "idle"]
    /\ err' = [err EXCEPT ![c] = "ctx.Err"]
    /\ cancelledAt' = [cancelledAt EXCEPT ![c] = pc[c]]
    /\ ret' = [ret EXCEPT ![c] = IF kind[c] = "suggest" THEN ret[c] ELSE NIL]
    /\ retRule' = [retRule EXCEPT ![c] = IF kind[c] = "suggest" THEN NIL
                                         ELSE retRule[c]]
    /\ creq' = [creq EXCEPT ![c] = NIL]
    /\ resp' = [resp EXCEPT ![c] = NoResponse]
    /\ UNCHANGED <<mparams, arg>>
    /\ cur' = HandledFor(c)
    /\ UNCHANGED request
    /\ HeapAfter(pheap, rheap)
    /\ ctx' = [ctx EXCEPT ![c] = FALSE]
    /\ UNCHANGED <<started, done, loop, runCtx, loopsEntered, kind, rpc,
                   rafter, served, invalidCall, storedVal, sugSnap, extCalls,
                   calls, muts, applied, order, impl, lockState, pureState>>

\* case <-m.done: return nil, ErrShuttingDown, in the first select.
Select_done(c) ==
    /\ Alive
    /\ pc[c] = "enqueue"
    /\ done
    /\ pc' = [pc EXCEPT ![c] = "idle"]
    /\ err' = [err EXCEPT ![c] = "ErrShuttingDown"]
    /\ ret' = [ret EXCEPT ![c] = IF kind[c] = "suggest" THEN ret[c] ELSE NIL]
    /\ retRule' = [retRule EXCEPT ![c] = IF kind[c] = "suggest" THEN NIL
                                         ELSE retRule[c]]
    /\ creq' = [creq EXCEPT ![c] = NIL]
    /\ UNCHANGED <<mparams, arg, resp, request>>
    /\ HeapAfter(pheap, rheap)
    /\ ctx' = [ctx EXCEPT ![c] = FALSE]
    /\ UNCHANGED <<started, done, loop, cur, runCtx, loopsEntered, kind, rpc,
                   rafter, served, cancelledAt, invalidCall, storedVal,
                   sugSnap, extCalls, calls, muts, applied, order, impl,
                   lockState, pureState>>

(***************************************************************************)
(* Manager.Run and the main event loop, Manager.run.                       *)
(***************************************************************************)
Run_noCompareAndSwap(r) ==
    /\ Alive
    /\ rpc[r] = "idle"
    /\ started' = 1
    /\ loop' = "select"
    /\ loopsEntered' = loopsEntered + 1
    /\ rpc' = [rpc EXCEPT ![r] = "running"]
    /\ rafter' = [rafter EXCEPT ![r] = loop = "exited"]
    /\ UNCHANGED <<mparams, done, cur, request, runCtx, pheap, rheap, pc, kind,
                   arg, creq, resp, ret, retRule, err, ctx, served,
                   cancelledAt, invalidCall, storedVal, sugSnap, extCalls,
                   calls, muts, applied, order, impl, lockState, pureState>>

\* Run: atomic.CompareAndSwapInt32(&m.started, 0, 1), then run.
Run(r) ==
    /\ Alive
    /\ rpc[r] = "idle"
    /\ IF started = 0
       THEN /\ started' = 1
            /\ loop' = "select"
            /\ loopsEntered' = loopsEntered + 1
            /\ rpc' = [rpc EXCEPT ![r] = "running"]
       ELSE \* return errors.New("manager already started")
            /\ rpc' = [rpc EXCEPT ![r] = "alreadyStarted"]
            /\ UNCHANGED <<started, loop, loopsEntered>>
    /\ rafter' = [rafter EXCEPT ![r] = loop = "exited"]
    /\ UNCHANGED <<mparams, done, cur, request, runCtx, pheap, rheap, pc, kind,
                   arg, creq, resp, ret, retRule, err, ctx, served,
                   cancelledAt, invalidCall, storedVal, sugSnap, extCalls,
                   calls, muts, applied, order, impl, lockState, pureState>>

\* The context handed to Run is cancelled.
CancelRun ==
    /\ Alive
    /\ ~runCtx
    /\ runCtx' = TRUE
    /\ UNCHANGED <<started, mparams, done, loop, cur, request, loopsEntered,
                   pheap, rheap, pc, kind, arg, creq, resp, ret, retRule, err,
                   ctx, rpc, rafter, served, cancelledAt, invalidCall,
                   storedVal, sugSnap, extCalls, calls, muts, applied, order,
                   impl, lockState, pureState>>

run_ctxDone_noClose ==
    /\ loop = "select"
    /\ runCtx
    /\ loop' = "exited"
    /\ rpc' = [r \in Runners |-> IF rpc[r] = "running" THEN "returned"
                                  ELSE rpc[r]]
    /\ UNCHANGED <<started, mparams, done, cur, request, runCtx, loopsEntered,
                   pheap, rheap, pc, kind, arg, creq, resp, ret, retRule, err,
                   ctx, rafter, served, cancelledAt, invalidCall, storedVal,
                   sugSnap, extCalls, calls, muts, applied, order, impl,
                   lockState, pureState>>

\* run, case <-ctx.Done(): return ctx.Err(); the deferred close(m.done).
run_ctxDone ==
    /\ loop = "select"
    /\ runCtx
    /\ loop' = "exited"
    /\ done' = TRUE
    /\ rpc' = [r \in Runners |-> IF rpc[r] = "running" THEN "returned"
                                  ELSE rpc[r]]
    /\ UNCHANGED <<started, mparams, cur, request, runCtx, loopsEntered, pheap,
                   rheap, pc, kind, arg, creq, resp, ret, retRule, err, ctx,
                   rafter, served, cancelledAt, invalidCall, storedVal,
                   sugSnap, extCalls, calls, muts, applied, order, impl,
                   lockState, pureState>>

\* The parameters that stay stored when a request arrives after the first
\* update.
NewParams_keepFirst(params, current) ==
    IF current # NIL THEN current ELSE params

\* m.params after run has handled a request: request.params unless nil.
NewParams(params, current) ==
    IF params # NIL THEN params ELSE current

\* run, case request := <-m.paramRequests: the unbuffered channel hands the
\* request of a caller in its first select to the loop; the caller goes on to
\* its second select.
run_paramRequests(c) ==
    /\ loop = "select"
    /\ pc[c] = "enqueue"
    /\ kind[c] \in {"update", "lookup"}
    /\ loop' = "paramRequests"
    /\ cur' = c
    /\ request' = creq[c]
    /\ pc' = [pc EXCEPT ![c] = "await"]
    /\ creq' = [creq EXCEPT ![c] = NIL]
    /\ served' = [served EXCEPT ![c] = TRUE]
    /\ order' = Received(c)
    /\ UNCHANGED <<mparams, arg, ret, retRule, resp>>
    /\ HeapAfter(pheap, rheap)
    /\ UNCHANGED <<started, done, runCtx, loopsEntered, kind, err, ctx, rpc,
                   rafter, applied, cancelledAt, invalidCall, storedVal,
                   sugSnap, extCalls, calls, muts, impl, lockState,
                   pureState>>

\* if request.params != nil { m.params = request.params }: the caller may
\* have returned on its cancelled context since the request was received.
run_paramRequests_store ==
    /\ loop = "paramRequests"
    /\ loop' = "response"
    /\ mparams' = NewParams(request, mparams)
    /\ applied' = IF request # NIL /\ cur \in Callers
                  THEN [applied EXCEPT ![cur] = TRUE]
                  ELSE applied
    /\ storedVal' = IF request # NIL THEN ParamsVal(request, pheap, rheap)
                    ELSE storedVal
    /\ order' = Stored(storedVal')
    /\ UNCHANGED <<request, arg, creq, ret, retRule, resp>>
    /\ HeapAfter(pheap, rheap)
    /\ UNCHANGED <<started, done, cur, runCtx, loopsEntered, pc, kind, err,
                   ctx, rpc, rafter, served, cancelledAt, invalidCall,
                   sugSnap, extCalls, calls, muts, impl, lockState,
                   pureState>>

\* request.response <- m.params: the send into the buffered channel of the
\* request, which no caller reads once the call has returned.
run_paramRequests_response ==
    /\ loop = "response"
    /\ ReplySlotFree
    /\ loop' = "select"
    /\ resp' = Reply(ParamsResponse(mparams))
    /\ cur' = NoCaller
    /\ request' = NIL
    /\ UNCHANGED <<mparams, arg, creq, ret, retRule>>
    /\ HeapAfter(pheap, rheap)
    /\ UNCHANGED <<started, done, runCtx, loopsEntered, pc, kind, err,
                   ctx, rpc, rafter, served, applied, cancelledAt,
                   invalidCall, storedVal, sugSnap, extCalls, order, calls,
                   muts, impl, lockState, pureState>>

\* run, case request := <-m.suggestionRequests: the request is received.
run_suggestionRequests(c) ==
    /\ loop = "select"
    /\ pc[c] = "enqueue"
    /\ kind[c] = "suggest"
    /\ loop' = "ListChannels"
    /\ cur' = c
    /\ pc' = [pc EXCEPT ![c] = "await"]
    /\ served' = [served EXCEPT ![c] = TRUE]
    /\ order' = Served(c)
    /\ sugSnap' = ParamsVal(mparams, pheap, rheap)
    /\ UNCHANGED <<started, mparams, done, request, runCtx, loopsEntered,
                   pheap, rheap, kind, arg, creq, resp, ret, retRule, err, ctx,
                   rpc, rafter, cancelledAt, invalidCall, storedVal, extCalls,
                   calls, muts, applied, impl, lockState, pureState>>

\* channels, err := m.cfg.ListChannels(request.ctx): an external call that
\* fails or returns the channels.
run_ListChannels(ok) ==
    /\ loop = "ListChannels"
    /\ extCalls' = IF cur \in Callers THEN [extCalls EXCEPT ![cur] = 1]
                   ELSE extCalls
    /\ IF ok
       THEN /\ loop' = "suggestSwaps"
            /\ UNCHANGED <<resp, cur>>
       ELSE /\ ReplySlotFree
            /\ loop' = "select"
            /\ resp' = Reply(SuggestResponse("ErrListChannels", NIL))
            /\ cur' = NoCaller
    /\ UNCHANGED <<started, mparams, done, request, runCtx, loopsEntered,
                   pheap, rheap, pc, kind, arg, creq, ret, retRule, err, ctx,
                   rpc, rafter, served, cancelledAt, invalidCall, storedVal,
                   sugSnap, calls, muts, applied, order, impl, lockState,
                   pureState>>

\* Manager.suggestSwaps on the struct p that m.params points to: the error
\* and the Rule field of the SwapSuggestion returned, which is m.params.NodeRule
\* or m.params.PeerRule itself, the pointer to the rule object that p holds.
suggestSwaps(p) ==
    IF p.NodeRule # NIL /\ p.PeerRule # NIL
    THEN [err |-> "ErrNoRules", rule |-> NIL]
    ELSE IF p.NodeRule # NIL
    THEN [err |-> "nil", rule |-> p.NodeRule]
    ELSE IF p.PeerRule # NIL
    THEN [err |-> "nil", rule |-> p.PeerRule]
    ELSE [err |-> "ErrNoRules", rule |-> NIL]

\* swaps, err := m.suggestSwaps(channels) and the response.  m.params is
\* dereferenced: while it is nil the goroutine panics and the deferred
\* close(m.done) runs.
run_suggestSwaps ==
    /\ loop = "suggestSwaps"
    /\ IF mparams = NIL
       THEN /\ loop' = "panic"
            /\ done' = TRUE
            /\ UNCHANGED <<resp, cur>>
       ELSE /\ ReplySlotFree
            /\ loop' = "select"
            /\ LET s == suggestSwaps(pheap[mparams])
               IN  resp' = Reply(SuggestResponse(s.err, s.rule))
            /\ cur' = NoCaller
            /\ UNCHANGED done
    /\ UNCHANGED <<started, mparams, request, runCtx, loopsEntered, pheap,
                   rheap, pc, kind, arg, creq, ret, retRule, err, ctx, rpc,
                   rafter, served, cancelledAt, invalidCall, storedVal,
                   sugSnap, extCalls, calls, muts, applied, order, impl,
                   lockState, pureState>>

\* The panic of the goroutine in run, not recovered, ends the process after
\* its deferred calls: no goroutine takes a step any more.
run_panicExit ==
    /\ loop = "panic"
    /\ loop' = "crashed"
    /\ UNCHANGED <<started, mparams, done, cur, request, runCtx, loopsEntered,
                   pheap, rheap, pc, kind, arg, creq, resp, ret, retRule, err,
                   ctx, rpc, rafter, served, cancelledAt, invalidCall,
                   storedVal, sugSnap, extCalls, calls, muts, applied, order,
                   impl, lockState, pureState>>

(***************************************************************************)
(* The lock-based manager: Parameters with ChannelRules.                   *)
(***************************************************************************)
\* DefaultFailureBackOff, in hours.
DefaultFailureBackOff == 168
DefaultSwapFeePPM == 5000
DefaultPrepay == 20000
DefaultMinerFee == 15000
DefaultConfTarget == 9

\* The short channel IDs callers key rules by.
ChanIDs == {0, 1, 2}

\* The fee limits and targets of newParameters().
DefaultLimits ==
    [FailureBackOff |-> DefaultFailureBackOff,
     MaximumPrepay |-> DefaultPrepay,
     MaximumSwapFeePPM |-> DefaultSwapFeePPM,
     MaximumMinerFee |-> DefaultMinerFee,
     ConfTarget |-> DefaultConfTarget]

\* A Parameters struct with the limits l and the ChannelRules map at m.
ParametersStruct(l, m) ==
    [FailureBackOff |-> l.FailureBackOff,
     MaximumPrepay |-> l.MaximumPrepay,
     MaximumSwapFeePPM |-> l.MaximumSwapFeePPM,
     MaximumMinerFee |-> l.MaximumMinerFee,
     ConfTarget |-> l.ConfTarget,
     ChannelRules |-> m]

\* make(map[lnwire.ShortChannelID]*ThresholdRule).
EmptyMap == [k \in {} |-> NIL]

\* NewThresholdRule(in, out).
NewThresholdRule(in, out) == [MinimumIncoming |-> in, MinimumOutgoing |-> out]

\* The Parameters values a caller builds from newParameters(): a valid rule
\* for channel 1, a rule for channel 0 (ErrZeroChannelID), a rule whose
\* thresholds sum to 100 percent, no rule, and a zero swap fee limit.
ChannelParameterChoices ==
    { [limits |-> DefaultLimits, rules |-> (1 :> NewThresholdRule(10, 10))],
      [limits |-> DefaultLimits, rules |-> (0 :> NewThresholdRule(1, 2))],
      [limits |-> DefaultLimits, rules |-> (1 :> NewThresholdRule(60, 40))],
      [limits |-> DefaultLimits, rules |-> EmptyMap],
      [limits |-> [DefaultLimits EXCEPT !.MaximumSwapFeePPM = 0],
       rules |-> (2 :> NewThresholdRule(10, 10))] }

\* The heap of the lock-based manager has room for every object that is in
\* use at once: the manager and each caller, through the value it built and
\* the value it was returned, hold one ChannelRules map each, a call makes
\* one more, and a map has at most one rule object per channel ID.
MaxMapObjs == 2 * Cardinality(Callers) + 2
MaxThresholdObjs == MaxMapObjs * Cardinality(ChanIDs)

MAddrs == 1..MaxMapObjs
TAddrs == 1..MaxThresholdObjs

\* ThresholdRule.validate: thresholds are percentages, each within [0, 100]
\* and summing to less than 100.
ThresholdRule_validate(r) ==
    IF r.MinimumIncoming < 0 \/ r.MinimumIncoming > 100
    THEN "ErrInvalidLiquidityThreshold"
    ELSE IF r.MinimumOutgoing < 0 \/ r.MinimumOutgoing > 100
    THEN "ErrInvalidLiquidityThreshold"
    ELSE IF r.MinimumIncoming + r.MinimumOutgoing >= 100
    THEN "ErrInvalidThresholdSum"
    ELSE "nil"

\* The errors the loop over p.ChannelRules can return: Go ranges over a map
\* in an unspecified order, so the entry that fails first is any failing one.
ChannelRules_errors(m, th) ==
    {"ErrZeroChannelID" : k \in {j \in DOMAIN m : j = 0}}
    \cup {"channel has invalid rule" :
            k \in {j \in DOMAIN m :
                     j # 0 /\ ThresholdRule_validate(th[m[j]]) # "nil"}}

\* Parameters.validate of the lock-based manager, on a Parameters value p
\* whose ChannelRules map is on the heap mh, th: the set of its outcomes.
ChannelParameters_validate(p, mh, th) ==
    IF ChannelRules_errors(mh[p.ChannelRules], th) # {}
    THEN ChannelRules_errors(mh[p.ChannelRules], th)
    ELSE IF p.MaximumSwapFeePPM = 0 THEN {"ErrZeroSwapFeePPM"}
    ELSE IF p.MaximumPrepay = 0 THEN {"ErrZeroPrepay"}
    ELSE IF p.MaximumMinerFee = 0 THEN {"ErrZeroMinerFee"}
    ELSE IF p.ConfTarget < 2 THEN {"ErrConfTargetTooLow"}
    ELSE {"nil"}

ChannelValidationErrors ==
    {"ErrZeroChannelID", "channel has invalid rule", "ErrZeroSwapFeePPM",
     "ErrZeroPrepay", "ErrZeroMinerFee", "ErrConfTargetTooLow"}

\* The i-th lowest address of all that is not in use, counting from 0.
NthFree(used, all, i) ==
    CHOOSE a \in all \ used : Cardinality({b \in all \ used : b < a}) = i

\* The position of key k among the keys of the map m.
KeyRank(k, m) == Cardinality({j \in DOMAIN m : j < k})

\* The value of a ChannelRules map: its thresholds by channel ID.
MapVal(a, mh, th) ==
    [k \in DOMAIN mh[a] |->
        <<th[mh[a][k]].MinimumIncoming, th[mh[a][k]].MinimumOutgoing>>]

\* The value of a Parameters struct, following its map and rule pointers.
ChannelParamsVal(p, mh, th) ==
    <<p.FailureBackOff, p.MaximumPrepay, p.MaximumSwapFeePPM,
      p.MaximumMinerFee, p.ConfTarget, MapVal(p.ChannelRules, mh, th)>>

cloneParameters_sharedRules(params, mh, th) ==
    LET m == NewAddr(DOMAIN mh, MAddrs)
    IN  [params |-> [params EXCEPT !.ChannelRules = m],
         mh |-> mh @@ (m :> mh[params.ChannelRules]),
         th |-> th]

\* cloneParameters on the heap mh, th: the copy, and the heap holding the new
\* map and the new rule objects (ruleCopy := *rule) it refers to.
cloneParameters(params, mh, th) ==
    LET old == mh[params.ChannelRules]
        m == NewAddr(DOMAIN mh, MAddrs)
        at(k) == NthFree(DOMAIN th, TAddrs, KeyRank(k, old))
    IN  [params |-> [FailureBackOff |-> params.FailureBackOff,
                     MaximumPrepay |-> params.MaximumPrepay,
                     MaximumMinerFee |-> params.MaximumMinerFee,
                     MaximumSwapFeePPM |-> params.MaximumSwapFeePPM,
                     ConfTarget |-> params.ConfTarget,
                     ChannelRules |-> m],
         mh |-> mh @@ (m :> [k \in DOMAIN old |-> at(k)]),
         th |-> th @@ [a \in {at(k) : k \in DOMAIN old} |->
                          th[old[CHOOSE k \in DOMAIN old : at(k) = a]]]]

\* The maps a caller reaches: through the value it built, the value it passed
\* and the value it was returned.
ReachableMaps(c) ==
    {v[1].ChannelRules : v \in {lP[c], lgot[c]} \ {<<>>}}

\* The rule objects a caller reaches through those maps.
ReachableThresholdRules(c) ==
    UNION {{mheap[m][k] : k \in DOMAIN mheap[m]} : m \in ReachableMaps(c)}

\* The heap after the step: what the roots of the next state reach of the
\* heaps mh and th.  The roots are the manager's params and the values the
\* callers hold.
LockHeapAfter(mh, th) ==
    LET held == UNION {{lP'[c], lgot'[c], lreq'[c]} : c \in Callers} \ {<<>>}
        liveM == {lparams'.ChannelRules} \cup {v[1].ChannelRules : v \in held}
        liveT == UNION {{mh[m][k] : k \in DOMAIN mh[m]} : m \in liveM}
    IN  /\ mheap' = [a \in liveM |-> mh[a]]
        /\ theap' = [a \in liveT |-> th[a]]

\* NewManager of the lock-based manager: params is newParameters().
NewLockManager ==
    /\ lparams = ParametersStruct(DefaultLimits, 1)
    /\ paramsLock = "free"
    /\ mheap = [a \in {1} |-> EmptyMap]
    /\ theap = [a \in {} |-> NIL]
    /\ lpc = [c \in Callers |-> "idle"]
    /\ lop = [c \in Callers |-> "none"]
    /\ lP = [c \in Callers |-> <<>>]
    /\ lreq = [c \in Callers |-> <<>>]
    /\ lgot = [c \in Callers |-> <<>>]
    /\ lerr = [c \in Callers |-> "none"]
    /\ lsnap = [c \in Callers |-> <<>>]
    /\ lext = [c \in Callers |-> 0]
    /\ lnoRules = [c \in Callers |-> FALSE]
    /\ linvalid = [c \in Callers |-> FALSE]
    /\ lastSetVal = <<DefaultFailureBackOff, DefaultPrepay, DefaultSwapFeePPM,
                      DefaultMinerFee, DefaultConfTarget, EmptyMap>>
    /\ gotVal = [c \in Callers |-> <<>>]
    /\ expectVal = [c \in Callers |-> <<>>]
    /\ lallSwaps = [c \in Callers |-> <<>>]
    /\ leligible = [c \in Callers |-> <<>>]
    /\ lscan = [c \in Callers |-> <<>>]
    /\ lsuggestion = [c \in Callers |-> <<>>]
    /\ lsugg = [c \in Callers |-> <<>>]
    /\ ltent = [c \in Callers |-> <<>>]

\* The program runs the lock-based manager.
LockManager == impl = "lock"

(***************************************************************************)
(* Callers of the lock-based manager writing into their own values,        *)
(* between calls.                                                          *)
(***************************************************************************)
\* rule.MinimumIncoming = v or rule.MinimumOutgoing = v, on a rule object the
\* caller reaches through the value it passed or the value it was returned.
MutateThresholdRule(c, a, f, v) ==
    /\ LockManager
    /\ lpc[c] = "idle"
    /\ muts < MaxMutations
    /\ a \in ReachableThresholdRules(c)
    /\ theap[a][f] # v
    /\ theap' = [theap EXCEPT ![a][f] = v]
    /\ muts' = muts + 1
    /\ UNCHANGED <<lparams, paramsLock, mheap, lpc, lop, lP, lreq, lgot, lerr,
                   lsnap, lext, lnoRules, linvalid, lastSetVal, gotVal,
                   expectVal, impl, loopState, pureState, suggestState, calls>>

\* params.ChannelRules[k] = NewThresholdRule(11, 11): adds or replaces an
\* entry of a map the caller reaches.
MutateChannelRules_put(c, m, k) ==
    /\ LockManager
    /\ lpc[c] = "idle"
    /\ muts < MaxMutations
    /\ m \in ReachableMaps(c)
    /\ LET a == NewAddr(DOMAIN theap, TAddrs)
       IN  /\ UNCHANGED <<lparams, lP, lreq, lgot>>
           /\ LockHeapAfter(
                  [mheap EXCEPT ![m] =
                      [j \in DOMAIN mheap[m] \cup {k} |->
                          IF j = k THEN a ELSE mheap[m][j]]],
                  theap @@ (a :> NewThresholdRule(11, 11)))
    /\ muts' = muts + 1
    /\ UNCHANGED <<paramsLock, lpc, lop, lerr, lsnap, lext, lnoRules,
                   linvalid, lastSetVal, gotVal, expectVal, impl, loopState,
                   pureState, suggestState,
                   calls>>

\* delete(params.ChannelRules, k) on a map the caller reaches.
MutateChannelRules_delete(c, m, k) ==
    /\ LockManager
    /\ lpc[c] = "idle"
    /\ muts < MaxMutations
    /\ m \in ReachableMaps(c)
    /\ k \in DOMAIN mheap[m]
    /\ UNCHANGED <<lparams, lP, lreq, lgot>>
    /\ LockHeapAfter(
           [mheap EXCEPT ![m] = [j \in DOMAIN mheap[m] \ {k} |-> mheap[m][j]]],
           theap)
    /\ muts' = muts + 1
    /\ UNCHANGED <<paramsLock, lpc, lop, lerr, lsnap, lext, lnoRules,
                   linvalid, lastSetVal, gotVal, expectVal, impl, loopState,
                   pureState, suggestState,
                   calls>>

(***************************************************************************)
(* Manager.GetParameters and Manager.SetParameters.                        *)
(***************************************************************************)
\* What every call of the lock-based manager resets.
BeginLockCall(c, op) ==
    /\ LockManager
    /\ lpc[c] = "idle"
    /\ calls < MaxCalls
    /\ calls' = calls + 1
    /\ lop' = [lop EXCEPT ![c] = op]
    /\ lext' = [lext EXCEPT ![c] = 0]

\* GetParameters: lock, cloneParameters(m.params), unlock.
GetParameters(c) ==
    /\ BeginLockCall(c, "GetParameters")
    /\ paramsLock = "free"
    /\ LET copy == cloneParameters(lparams, mheap, theap)
       IN  /\ lgot' = [lgot EXCEPT ![c] = <<copy.params>>]
           /\ UNCHANGED <<lparams, lP, lreq>>
           /\ LockHeapAfter(copy.mh, copy.th)
           /\ gotVal' = [gotVal EXCEPT ![c] =
                            ChannelParamsVal(copy.params, copy.mh, copy.th)]
    /\ expectVal' = [expectVal EXCEPT ![c] = lastSetVal]
    /\ lerr' = [lerr EXCEPT ![c] = "nil"]
    /\ linvalid' = [linvalid EXCEPT ![c] = FALSE]
    /\ UNCHANGED <<paramsLock, lpc, lsnap, lnoRules, lastSetVal, impl,
                   loopState, pureState, suggestState, muts>>

\* SetParameters(params) up to m.paramsLock.Lock(), on the heap mh, th that
\* holds the caller's value: validation.
SetParameters(c, params, mh, th) ==
    /\ \E e \in ChannelParameters_validate(params, mh, th) :
          /\ linvalid' = [linvalid EXCEPT ![c] = e # "nil"]
          /\ IF e # "nil"
             THEN \* return err
                  /\ lpc' = [lpc EXCEPT ![c] = "idle"]
                  /\ lerr' = [lerr EXCEPT ![c] = e]
                  /\ lreq' = [lreq EXCEPT ![c] = <<>>]
             ELSE /\ lpc' = [lpc EXCEPT ![c] = "SetParameters_lock"]
                  /\ lerr' = [lerr EXCEPT ![c] = "pending"]
                  /\ lreq' = [lreq EXCEPT ![c] = <<params>>]
    /\ UNCHANGED <<lparams, lgot>>
    /\ LockHeapAfter(mh, th)

\* A caller builds a Parameters value from newParameters(), with fresh rule
\* objects (NewThresholdRule) holding the value v, and calls SetParameters.
Call_SetParameters(c, v) ==
    /\ BeginLockCall(c, "SetParameters")
    /\ LET m == NewAddr(DOMAIN mheap, MAddrs)
           at(k) == NthFree(DOMAIN theap, TAddrs, KeyRank(k, v.rules))
           mh == mheap @@ (m :> [k \in DOMAIN v.rules |-> at(k)])
           th == theap @@ [a \in {at(k) : k \in DOMAIN v.rules} |->
                              v.rules[CHOOSE k \in DOMAIN v.rules : at(k) = a]]
           P == ParametersStruct(v.limits, m)
       IN  /\ lP' = [lP EXCEPT ![c] = <<P>>]
           /\ SetParameters(c, P, mh, th)
    /\ UNCHANGED <<paramsLock, lsnap, lnoRules, lastSetVal, gotVal, expectVal,
                   impl, loopState, pureState, suggestState, muts>>

\* A caller calls SetParameters with the value it already holds.
Call_SetParameters_again(c) ==
    /\ BeginLockCall(c, "SetParameters")
    /\ lP[c] # <<>>
    /\ UNCHANGED lP
    /\ SetParameters(c, lP[c][1], mheap, theap)
    /\ UNCHANGED <<paramsLock, lsnap, lnoRules, lastSetVal, gotVal, expectVal,
                   impl, loopState, pureState, suggestState, muts>>

\* SetParameters from m.paramsLock.Lock() on: m.params =
\* cloneParameters(params), unlock, return nil.
SetParameters_locked(c) ==
    /\ LockManager
    /\ lpc[c] = "SetParameters_lock"
    /\ paramsLock = "free"
    /\ LET copy == cloneParameters(lreq[c][1], mheap, theap)
       IN  /\ lparams' = copy.params
           /\ lreq' = [lreq EXCEPT ![c] = <<>>]
           /\ UNCHANGED <<lP, lgot>>
           /\ LockHeapAfter(copy.mh, copy.th)
    /\ lastSetVal' = ChannelParamsVal(lreq[c][1], mheap, theap)
    /\ lpc' = [lpc EXCEPT ![c] = "idle"]
    /\ lerr' = [lerr EXCEPT ![c] = "nil"]
    /\ UNCHANGED <<paramsLock, lop, lsnap, lext, lnoRules, linvalid, gotVal,
                   expectVal, impl, loopState, pureState, suggestState, calls,
                   muts>>

(***************************************************************************)
(* getEligibleChannels: the channels that rules may be applied to.         *)
(***************************************************************************)
\* m.params.FailureBackOff of the manager under evaluation, in units of time.
FailureBackOff == 2

\* The longest list of existing swaps handed to getEligibleChannels.
MaxSwaps == 2

\* The last reading of the clock.
MaxClock == 6

\* The channels of lnd: channel1 and channel2 as in TestEligibleChannels, and
\* a second channel with the peer of channel1.
channel1 == [ChannelID |-> 1, PubKeyBytes |-> "peer1"]
channel2 == [ChannelID |-> 2, PubKeyBytes |-> "peer2"]
channel3 == [ChannelID |-> 3, PubKeyBytes |-> "peer1"]

\* What ListChannels can return.
ChannelListings ==
    {<<channel1, channel2, channel3>>, <<channel3, channel1>>, <<channel2>>}

\* The elements of a slice.
Range(slice) == {slice[i] : i \in 1..Len(slice)}

\* NewExistingSwap: a swap of the given type and state, restricted to the
\* channels of a loop out (<<>>: unrestricted) or to the last hop peer of a
\* loop in (<<>>: a nil Peer).
NewExistingSwap(lastUpdate, state, swapType, chans, peer) ==
    [LastUpdate |-> lastUpdate, State |-> state, Type |-> swapType,
     Channels |-> chans, Peer |-> peer]

\* The times at which a swap was last updated.
UpdateTimes == {2, 3}

\* The readings of the clock when getEligibleChannels is called once.
ClockChoices == {FailureBackOff + 2, FailureBackOff + 3}

\* The existing swaps the swap client can report.  Only the last update of a
\* loop out that failed off-chain is read.
SwapChoices ==
    {NewExistingSwap(t, "FailOffchainPayments", "out", chans, <<>>) :
        t \in UpdateTimes, chans \in {<<>>, <<1>>, <<2, 3>>}}
    \cup {NewExistingSwap(0, state, "out", chans, <<>>) :
        state \in {"Initiated", "Success"},
        chans \in {<<>>, <<1>>, <<2, 3>>}}
    \cup {NewExistingSwap(0, state, "in", <<>>, peer) :
        state \in {"Initiated", "Success", "FailOffchainPayments"},
        peer \in {<<>>, <<"peer1">>, <<"peer2">>}}

\* Lists of at most n existing swaps.
RECURSIVE SwapLists(_)
SwapLists(n) ==
    IF n = 0 THEN {<<>>}
    ELSE SwapLists(n - 1)
         \cup {Append(l, x) : l \in {k \in SwapLists(n - 1) : Len(k) = n - 1},
                              x \in SwapChoices}

\* s.State.Type() == loopdb.StateTypePending: the swap has not reached a
\* final state.
StateTypePending(state) == state = "Initiated"

\* The swap is a loop out that failed off-chain after the failure cutoff:
\* s.LastUpdate.After(failureCutoff).
RecentlyFailed_atCutoff(s, failureCutoff) ==
    /\ s.State = "FailOffchainPayments"
    /\ s.Type = "out"
    /\ s.LastUpdate >= failureCutoff

RecentlyFailed(s, failureCutoff) ==
    /\ s.State = "FailOffchainPayments"
    /\ s.Type = "out"
    /\ s.LastUpdate > failureCutoff

\* The maps built from the existing swaps, before any swap was read;
\* returned is "no" until the loop returns from getEligibleChannels.
NoExisting ==
    [existingOut |-> {}, existingIn |-> {}, failedOut |-> {},
     returned |-> "no"]

\* One iteration of the loop over the existing swaps.
SwapStep_restrictedOnly(s, acc, failureCutoff) ==
    LET next == [acc EXCEPT !.failedOut =
                     IF RecentlyFailed(s, failureCutoff)
                     THEN @ \cup Range(s.Channels) ELSE @]
    IN  IF ~StateTypePending(s.State) THEN next
        ELSE CASE s.Type = "in" ->
                      [next EXCEPT !.existingIn = @ \cup Range(s.Peer)]
               [] s.Type = "out" ->
                      [next EXCEPT !.existingOut = @ \cup Range(s.Channels)]
               [] OTHER -> [next EXCEPT !.returned = "unknown swap type"]

\* One iteration that goes on to the switch over the type for a swap in any
\* state.
SwapStep_everyState(s, acc, failureCutoff) ==
    LET next == [acc EXCEPT !.failedOut =
                     IF RecentlyFailed(s, failureCutoff)
                     THEN @ \cup Range(s.Channels) ELSE @]
    IN  CASE s.Type = "in" ->
                 IF s.Peer = <<>>
                 THEN [next EXCEPT !.returned = "nil"]
                 ELSE [next EXCEPT !.existingIn = @ \cup {s.Peer[1]}]
          [] s.Type = "out" ->
                 IF Len(s.Channels) = 0
                 THEN [next EXCEPT !.returned = "nil"]
                 ELSE [next EXCEPT !.existingOut = @ \cup Range(s.Channels)]
          [] OTHER -> [next EXCEPT !.returned = "unknown swap type"]

\* One iteration that holds the peer of the last restricted loop in only.
SwapStep_lastPeerOnly(s, acc, failureCutoff) ==
    LET next == [acc EXCEPT !.failedOut =
                     IF RecentlyFailed(s, failureCutoff)
                     THEN @ \cup Range(s.Channels) ELSE @]
    IN  IF ~StateTypePending(s.State) THEN next
        ELSE CASE s.Type = "in" ->
                      IF s.Peer = <<>>
                      THEN [next EXCEPT !.returned = "nil"]
                      ELSE [next EXCEPT !.existingIn = {s.Peer[1]}]
               [] s.Type = "out" ->
                      IF Len(s.Channels) = 0
                      THEN [next EXCEPT !.returned = "nil"]
                      ELSE [next EXCEPT
                                !.existingOut = @ \cup Range(s.Channels)]
               [] OTHER -> [next EXCEPT !.returned = "unknown swap type"]

SwapStep(s, acc, failureCutoff) ==
    LET next == [acc EXCEPT !.failedOut =
                     IF RecentlyFailed(s, failureCutoff)
                     THEN @ \cup Range(s.Channels) ELSE @]
    IN  IF ~StateTypePending(s.State) THEN next
        ELSE CASE s.Type = "in" ->
                      IF s.Peer = <<>>
                      THEN [next EXCEPT !.returned = "nil"]
                      ELSE [next EXCEPT !.existingIn = @ \cup {s.Peer[1]}]
               [] s.Type = "out" ->
                      IF Len(s.Channels) = 0
                      THEN [next EXCEPT !.returned = "nil"]
                      ELSE [next EXCEPT
                                !.existingOut = @ \cup Range(s.Channels)]
               [] OTHER -> [next EXCEPT !.returned = "unknown swap type"]

\* for _, s := range allSwaps, from the i-th swap on, until a return.
RECURSIVE ScanSwaps(_, _, _, _)
ScanSwaps(swaps, i, acc, failureCutoff) ==
    IF i > Len(swaps) \/ acc.returned # "no" THEN acc
    ELSE ScanSwaps(swaps, i + 1, SwapStep(swaps[i], acc, failureCutoff),
                   failureCutoff)

\* The body of the loop over the channels of lnd: the channel is appended to
\* the eligible channels.
ChannelEligible_anyPeer(channel, acc) ==
    /\ channel.ChannelID \notin acc.failedOut
    /\ channel.ChannelID \notin acc.existingOut

ChannelEligible(channel, acc) ==
    /\ channel.ChannelID \notin acc.failedOut
    /\ channel.ChannelID \notin acc.existingOut
    /\ channel.PubKeyBytes \notin acc.existingIn

\* What getEligibleChannels returns: the eligible channels and the error,
\* and whether it listed the channels of lnd.
Returned(chans, error, didList) ==
    [done |-> TRUE, channels |-> chans, err |-> error, listed |-> didList]

\* The part of getEligibleChannels before lnd is asked: the clock is read
\* as now and the existing swaps are scanned, up to a return.
ScanExisting(now, swaps) ==
    ScanSwaps(swaps, 1, NoExisting, now - FailureBackOff)

\* The part of getEligibleChannels after the scan: ListChannels returns
\* lndChannels, or an error when lndFails, and the channels are filtered by
\* the maps built in the scan.
FilterChannels(acc, lndChannels, lndFails) ==
    IF lndFails THEN Returned(<<>>, "ErrListChannels", TRUE)
    ELSE Returned(SelectSeq(lndChannels,
                            LAMBDA ch : ChannelEligible(ch, acc)),
                  "nil", TRUE)

\* m.getEligibleChannels(ctx, allSwaps) when the clock reads now at the
\* start of the call and ListChannels returns lndChannels, or an error when
\* lndFails.
getEligibleChannels(now, swaps, lndChannels, lndFails) ==
    LET acc == ScanExisting(now, swaps)
    IN  IF acc.returned # "no" THEN Returned(<<>>, acc.returned, FALSE)
        ELSE FilterChannels(acc, lndChannels, lndFails)

\* A result of getEligibleChannels, held with the reading of the clock that
\* the call made.
ReturnedAt(r, now) ==
    [done |-> r.done, channels |-> r.channels, err |-> r.err,
     listed |-> r.listed, readAt |-> now]

\* getEligibleChannels has not been called.
NotEvaluated ==
    [done |-> FALSE, channels |-> <<>>, err |-> "nil", listed |-> FALSE,
     readAt |-> 0]

\* No call of getEligibleChannels waits in ListChannels.
NotListing == [waiting |-> FALSE, readAt |-> 0, acc |-> NoExisting]

(***************************************************************************)
(* selectSingleSwap: the swaps recommended over channels with surplus.     *)
(***************************************************************************)
\* The longest list of channels handed to selectSingleSwap.
MaxChannels == 2

\* The surplus amounts, targets and size restrictions of TestSelectSwaps,
\* with amounts below and above them.
SurplusAmounts == {0, 5, 10, 20, 50, 200}
TargetAmounts == {0, 5, 10, 20, 25, 150}
MinimumAmounts == {0, 10}
MaximumAmounts == {5, 20, 100}

\* channelSurplus: the surplus amount of a channel.
channelSurplus(amt, chan) == [amount |-> amt, channel |-> chan]

\* Lists of at most n channels with surplus.
RECURSIVE SurplusLists(_)
SurplusLists(n) ==
    IF n = 0 THEN {<<>>}
    ELSE SurplusLists(n - 1)
         \cup {Append(l, channelSurplus(a, c)) :
                  l \in {k \in SurplusLists(n - 1) : Len(k) = n - 1},
                  a \in SurplusAmounts, c \in 1..MaxChannels}

\* newSwapRecommendation.
newSwapRecommendation_sameChannel(amt, chan) ==
    [Amount |-> amt, Channel |-> 1]

newSwapRecommendation(amt, chan) == [Amount |-> amt, Channel |-> chan]

\* sort.SliceStable(channels, channels[i].amount > channels[j].amount): from
\* most to least surplus, channels of equal surplus keeping their order.
\* The channel c, which precedes the channel last in the slice, precedes
\* it in the sorted slice too: last does not have more surplus.
StaysBefore_unstable(c, last) == c.amount > last.amount

StaysBefore(c, last) == ~(last.amount > c.amount)

RECURSIVE SliceStable(_)
SliceStable(chans) ==
    IF chans = <<>> THEN <<>>
    ELSE LET sorted == SliceStable(SubSeq(chans, 1, Len(chans) - 1))
             last == chans[Len(chans)]
         IN  SelectSeq(sorted, LAMBDA c : StaysBefore(c, last))
             \o <<last>>
             \o SelectSeq(sorted, LAMBDA c : ~StaysBefore(c, last))

\* The amount swapped over a channel with surplus availableAmt while amt
\* remains to be swapped.
SwapAmt_fullSurplus(availableAmt, amt, maxAmt) ==
    IF availableAmt < maxAmt THEN availableAmt ELSE maxAmt

SwapAmt(availableAmt, amt, maxAmt) ==
    LET clamped == IF availableAmt > amt THEN amt ELSE availableAmt
    IN  IF clamped < maxAmt THEN clamped ELSE maxAmt

\* The loop stops after a swap: the amount left is below the minimum.
BreakLoop_never(amt, minAmt) == FALSE

BreakLoop(amt, minAmt) == amt < minAmt

\* for _, channel := range channels, from the i-th channel on, with amt left
\* to swap and the swaps recommended so far.
RECURSIVE SelectLoop(_, _, _, _, _, _)
SelectLoop(chans, i, amt, minAmt, maxAmt, recommended) ==
    IF i > Len(chans) THEN recommended
    ELSE IF chans[i].amount < minAmt
         THEN SelectLoop(chans, i + 1, amt, minAmt, maxAmt, recommended)
         ELSE LET swapAmt == SwapAmt(chans[i].amount, amt, maxAmt)
                  swap == newSwapRecommendation(swapAmt, chans[i].channel)
              IN  IF BreakLoop(amt - swapAmt, minAmt)
                  THEN Append(recommended, swap)
                  ELSE SelectLoop(chans, i + 1, amt - swapAmt, minAmt,
                                  maxAmt, Append(recommended, swap))

\* selectSingleSwap(channels, amount, minSwapAmount, maxSwapAmount).
selectSingleSwap(chans, amt, minAmt, maxAmt) ==
    SelectLoop(SliceStable(chans), 1, amt, minAmt, maxAmt, <<>>)

\* selectSingleSwap has not been called.
NotSelected == [done |-> FALSE, recommended |-> <<>>, passed |-> <<>>]

(***************************************************************************)
(* checkFeeLimits: the quote of the server against the fee limits.         *)
(***************************************************************************)
\* FeeBase: the base that fees are expressed in.
FeeBase == 1000000

\* The fee limits of Parameters.
FeeLimits(ppm, minerFee, prepay) ==
    [MaximumSwapFeePPM |-> ppm, MaximumMinerFee |-> minerFee,
     MaximumPrepay |-> prepay]

\* What LoopOutQuote returns.
Quote(swapFee, minerFee, prepay) ==
    [swap |-> swapFee, miner |-> minerFee, prepay |-> prepay]

\* The fee limits that Parameters.validate accepts: each is an integer other
\* than zero.
FeeLimitChoices ==
    {FeeLimits(ppm, minerFee, prepay) :
        ppm \in {-1, DefaultSwapFeePPM, 20000},
        minerFee \in {500, DefaultMinerFee},
        prepay \in {100, DefaultPrepay}}

\* The quotes of the server: fees below, at and above the limits.
QuoteChoices ==
    {Quote(swapFee, minerFee, prepay) :
        swapFee \in {0, 1, 2, 500, 501, 2000, 2001},
        minerFee \in {50, 500, 600},
        prepay \in {10, 100, 200}}

\* The amounts of the suggestions.
SuggestionAmounts == {199, 300, 100000}

\* uint64(x): the eight bytes of x in two's complement, the lowest first,
\* for an x that an int32 holds.
Uint64(x) ==
    [i \in 1..8 |-> IF i <= 4 THEN (x \div 256 ^ (i - 1)) % 256
                    ELSE IF x < 0 THEN 255 ELSE 0]

\* The sum of the products a[i] * b[j] of the bytes that meet at byte k of
\* the product, from a[i] on.
RECURSIVE Column(_, _, _, _)
Column(a, b, k, i) ==
    IF i > k THEN 0 ELSE a[i] * b[k + 1 - i] + Column(a, b, k, i + 1)

\* The bytes of a * b from byte k on with the carry into it: the uint64
\* product drops what lies above 2^64.
RECURSIVE ProductFrom(_, _, _, _)
ProductFrom(a, b, k, carry) ==
    IF k > 8 THEN <<>>
    ELSE LET t == Column(a, b, k, 1) + carry
         IN  <<t % 256>> \o ProductFrom(a, b, k + 1, t \div 256)

\* The quotient, in bytes, and the remainder of the division by d of the
\* number whose bytes above byte k left the remainder r.
RECURSIVE DividedFrom(_, _, _, _)
DividedFrom(n, k, r, d) ==
    IF k = 0 THEN [quot |-> <<>>, rem |-> r]
    ELSE LET t == r * 256 + n[k]
             lower == DividedFrom(n, k - 1, t % d, d)
         IN  [quot |-> Append(lower.quot, t \div d), rem |-> lower.rem]

\* The number of the four lowest bytes.
ByteValue(n) == n[1] + 256 * n[2] + 65536 * n[3] + 16777216 * n[4]

\* A btcutil.Amount that an int32 need not hold: the amount is
\* whole * FeeBase + rest, with 0 <= rest < FeeBase.
WideAmount(whole, rest) == [whole |-> whole, rest |-> rest]

\* ppmToSat: btcutil.Amount(uint64(amount) * uint64(ppm) / FeeBase), in
\* 64-bit arithmetic: with a rate below zero the product wraps around 2^64
\* and the quotient is above 18 * 10^12.
ppmToSat(amt, ppm) ==
    LET product == ProductFrom(Uint64(amt), Uint64(ppm), 1, 0)
        sat == DividedFrom(product, 8, 0, FeeBase)
        split == DividedFrom(sat.quot, 8, 0, FeeBase)
    IN  WideAmount(ByteValue(split.quot), split.rem)

\* fee > allowed, for a fee that an int32 holds.
Exceeds(fee, allowed) ==
    \/ fee \div FeeBase > allowed.whole
    \/ fee \div FeeBase = allowed.whole /\ fee % FeeBase > allowed.rest

\* m.checkFeeLimits(swap, miner, prepay, suggestion) under the limits of
\* m.params.
checkFeeLimits(params, swapFee, minerFee, prepay, amt) ==
    LET allowedFee == ppmToSat(amt, params.MaximumSwapFeePPM)
    IN  IF Exceeds(swapFee, allowedFee) THEN "errInsufficientSwapFee"
        ELSE IF minerFee > params.MaximumMinerFee
             THEN "errInsufficientMinerFee"
        ELSE IF prepay > params.MaximumPrepay THEN "errInsufficientPrepay"
        ELSE "nil"

(***************************************************************************)
(* Manager.SuggestSwaps of the lock-based manager.                         *)
(***************************************************************************)
\* SuggestSwaps up to its first external call: the lock is taken and, with
\* no rule set, the call returns nil, nil at once.
SuggestSwaps(c) ==
    /\ BeginLockCall(c, "SuggestSwaps")
    /\ paramsLock = "free"
    /\ linvalid' = [linvalid EXCEPT ![c] = FALSE]
    /\ lsnap' = [lsnap EXCEPT ![c] = ChannelParamsVal(lparams, mheap, theap)]
    /\ lallSwaps' = [lallSwaps EXCEPT ![c] = <<>>]
    /\ leligible' = [leligible EXCEPT ![c] = <<>>]
    /\ lsugg' = [lsugg EXCEPT ![c] = <<>>]
    /\ ltent' = [ltent EXCEPT ![c] = <<>>]
    /\ UNCHANGED <<lscan, lsuggestion>>
    /\ IF Cardinality(DOMAIN mheap[lparams.ChannelRules]) = 0
       THEN \* return nil, nil
            /\ lnoRules' = [lnoRules EXCEPT ![c] = TRUE]
            /\ lerr' = [lerr EXCEPT ![c] = "nil"]
            /\ UNCHANGED <<paramsLock, lpc>>
       ELSE /\ lnoRules' = [lnoRules EXCEPT ![c] = FALSE]
            /\ lerr' = [lerr EXCEPT ![c] = "pending"]
            /\ paramsLock' = c
            /\ lpc' = [lpc EXCEPT ![c] = "LoopOutRestrictions"]
    /\ UNCHANGED <<lparams, mheap, theap, lP, lreq, lgot, lastSetVal, gotVal,
                   expectVal, impl, loopState, pureState, muts>>

\* The suggestions returned with an error: nil.
SuggestionsOnError_partial(suggestions) == suggestions

SuggestionsOnError(suggestions) == <<>>

\* return nil, err, and the deferred unlock.
SuggestSwaps_returnErr(c, error) ==
    /\ lpc' = [lpc EXCEPT ![c] = "idle"]
    /\ lerr' = [lerr EXCEPT ![c] = error]
    /\ lsugg' = [lsugg EXCEPT ![c] = SuggestionsOnError(lsugg[c])]
    /\ leligible' = [leligible EXCEPT ![c] = <<>>]
    /\ paramsLock' = "free"

\* An external call of SuggestSwaps made at the position at: it fails, and
\* the call returns its error and unlocks, or the call goes on to next.
SuggestSwaps_external(c, at, ok, failure, next) ==
    /\ LockManager
    /\ lpc[c] = at
    /\ lext' = [lext EXCEPT ![c] = lext[c] + 1]
    /\ IF ok
       THEN /\ lpc' = [lpc EXCEPT ![c] = next]
            /\ UNCHANGED <<paramsLock, lerr, lsugg, leligible>>
       ELSE SuggestSwaps_returnErr(c, failure)
    /\ UNCHANGED <<lparams, mheap, theap, lop, lP, lreq, lgot, lsnap,
                   lnoRules, linvalid, lastSetVal, gotVal, expectVal, ltent,
                   lscan, lsuggestion, impl, loopState, pureState, calls,
                   muts>>

\* outRestrictions, err := m.cfg.LoopOutRestrictions(ctx).
SuggestSwaps_LoopOutRestrictions(c, ok) ==
    /\ SuggestSwaps_external(c, "LoopOutRestrictions", ok,
                             "ErrLoopOutRestrictions", "ListSwaps")
    /\ UNCHANGED lallSwaps

\* The lists of swaps that cfg.ListSwaps returns here: none, a pending loop
\* out over channel 1 and a pending loop in with no last hop.
ListedSwaps ==
    {<<>>,
     <<NewExistingSwap(0, "Initiated", "out", <<1>>, <<>>)>>,
     <<NewExistingSwap(0, "Initiated", "in", <<>>, <<>>)>>}

\* allSwaps, err := m.cfg.ListSwaps(ctx).
SuggestSwaps_ListSwaps(c, ok, existing) ==
    /\ SuggestSwaps_external(c, "ListSwaps", ok, "ErrListSwaps",
                             "getEligibleChannels")
    /\ lallSwaps' = [lallSwaps EXCEPT ![c] = IF ok THEN existing ELSE @]

\* eligible, err := m.getEligibleChannels(ctx, allSwaps) up to its call of
\* ListChannels: the clock is read and the existing swaps are scanned; the
\* function returns from the scan, or asks lnd for its channels and waits.
SuggestSwaps_getEligibleChannels(c) ==
    /\ LockManager
    /\ lpc[c] = "getEligibleChannels"
    /\ LET acc == ScanExisting(clockNow, lallSwaps[c])
       IN  IF acc.returned = "no"
           THEN /\ lpc' = [lpc EXCEPT ![c] = "ListChannels"]
                /\ lscan' = [lscan EXCEPT ![c] = <<acc>>]
                /\ UNCHANGED <<paramsLock, lerr, lsugg, leligible>>
           ELSE IF acc.returned = "nil"
           THEN /\ lpc' = [lpc EXCEPT ![c] = "rules"]
                /\ leligible' = [leligible EXCEPT ![c] = <<>>]
                /\ UNCHANGED <<paramsLock, lerr, lsugg, lscan>>
           ELSE /\ SuggestSwaps_returnErr(c, acc.returned)
                /\ UNCHANGED lscan
    /\ UNCHANGED <<lparams, mheap, theap, lop, lP, lreq, lgot, lsnap, lext,
                   lnoRules, linvalid, lastSetVal, gotVal, expectVal,
                   lallSwaps, lsuggestion, ltent, impl, loopState, pureState,
                   calls, muts>>

\* channels, err := m.cfg.Lnd.ListChannels(ctx) returns to getEligibleChannels,
\* where lnd lists channel1 and channel2 unless it fails; the channels are
\* filtered and SuggestSwaps goes on with the eligible ones.
SuggestSwaps_ListChannels(c, lndFails) ==
    /\ LockManager
    /\ lpc[c] = "ListChannels"
    /\ lext' = [lext EXCEPT ![c] = @ + 1]
    /\ lscan' = [lscan EXCEPT ![c] = <<>>]
    /\ LET r == FilterChannels(lscan[c][1], <<channel1, channel2>>, lndFails)
       IN  IF r.err = "nil"
           THEN /\ lpc' = [lpc EXCEPT ![c] = "rules"]
                /\ leligible' = [leligible EXCEPT ![c] = r.channels]
                /\ UNCHANGED <<paramsLock, lerr, lsugg>>
           ELSE SuggestSwaps_returnErr(c, r.err)
    /\ UNCHANGED <<lparams, mheap, theap, lop, lP, lreq, lgot, lsnap,
                   lnoRules, linvalid, lastSetVal, gotVal, expectVal,
                   lallSwaps, lsuggestion, ltent, impl, loopState, pureState,
                   calls, muts>>

\* newLoopOutRecommendation(amount, channels).
newLoopOutRecommendation(amt, chans) == [Amount |-> amt, Channels |-> chans]

\* What rule.suggestSwap returns for an eligible channel: whether it suggests
\* a swap, and of what amount.
RuleSuggests(suggests, amt) == [suggests |-> suggests, amount |-> amt]

\* No suggestion, or a suggestion.
SuggestOutcomes == {RuleSuggests(FALSE, 0), RuleSuggests(TRUE, 100000)}

\* What LoopOutQuote returns: an error, or the fees.
Quoted(quoteFails, fees) == [quoteFails |-> quoteFails, quote |-> fees]

\* A failing quote; the quote of TestCheckFeeLimits that is within the
\* default limits; a quote whose miner fee is above the default limit.
QuoteOutcomes ==
    {Quoted(TRUE, Quote(0, 0, 0)),
     Quoted(FALSE, Quote(1, 50, 10)),
     Quoted(FALSE, Quote(1, DefaultMinerFee + 1, 10))}

\* The body of the loop without the lookup of the rule of the channel.
BeforeQuote_withoutRule(hasRule, advice) ==
    IF ~advice.suggests THEN "continue" ELSE "quote"

\* What the body of the loop over the eligible channels does for a channel
\* before it asks for a quote: continue, or ask.
BeforeQuote(hasRule, advice) ==
    IF ~hasRule \/ ~advice.suggests THEN "continue" ELSE "quote"

\* The body of the loop returning the error of checkFeeLimits.
AfterQuote_abortOnFees(answer, feeError) ==
    IF answer.quoteFails \/ feeError # "nil" THEN "return" ELSE "append"

\* What the body of the loop does once LoopOutQuote has returned: return the
\* error of the quote, continue, or append the suggestion.
AfterQuote(answer, feeError) ==
    IF answer.quoteFails THEN "return"
    ELSE IF feeError # "nil" THEN "continue"
    ELSE "append"

\* One iteration of for _, channel := range eligible up to its call of
\* LoopOutQuote: the rule of the channel is looked up and asked for a
\* suggestion; the loop continues, or asks for a quote and waits.
SuggestSwaps_channel(c, advice) ==
    /\ LockManager
    /\ lpc[c] = "rules"
    /\ leligible[c] # <<>>
    /\ LET channel == Head(leligible[c])
           hasRule == channel.ChannelID
                          \in DOMAIN mheap[lparams.ChannelRules]
           suggestion == newLoopOutRecommendation(advice.amount,
                                                  <<channel.ChannelID>>)
       IN  IF BeforeQuote(hasRule, advice) = "continue"
           THEN /\ leligible' = [leligible EXCEPT ![c] = Tail(@)]
                /\ UNCHANGED <<lpc, lsuggestion>>
           ELSE /\ lpc' = [lpc EXCEPT ![c] = "LoopOutQuote"]
                /\ lsuggestion' = [lsuggestion EXCEPT ![c] = <<suggestion>>]
                /\ UNCHANGED leligible
    /\ UNCHANGED <<lparams, paramsLock, mheap, theap, lop, lP, lreq, lgot,
                   lerr, lsnap, lext, lnoRules, linvalid, lastSetVal, gotVal,
                   expectVal, lallSwaps, lscan, lsugg, ltent, impl, loopState,
                   pureState, calls, muts>>

\* m.cfg.LoopOutQuote returns to the iteration that waits: the error of the
\* quote is returned, or the fees are checked against the limits and the
\* suggestion is appended or left out.
SuggestSwaps_LoopOutQuote(c, answer) ==
    /\ LockManager
    /\ lpc[c] = "LoopOutQuote"
    /\ lext' = [lext EXCEPT ![c] = @ + 1]
    /\ lsuggestion' = [lsuggestion EXCEPT ![c] = <<>>]
    /\ LET suggestion == lsuggestion[c][1]
           feeError == checkFeeLimits(lparams, answer.quote.swap,
                                      answer.quote.miner, answer.quote.prepay,
                                      suggestion.Amount)
           body == AfterQuote(answer, feeError)
       IN  /\ ltent' = [ltent EXCEPT ![c] =
                           IF ~answer.quoteFails
                           THEN Append(@, [suggestion |-> suggestion,
                                           feeErr |-> feeError])
                           ELSE @]
           /\ IF body = "return"
              THEN SuggestSwaps_returnErr(c, IF answer.quoteFails
                                             THEN "ErrLoopOutQuote"
                                             ELSE feeError)
              ELSE /\ lpc' = [lpc EXCEPT ![c] = "rules"]
                   /\ leligible' = [leligible EXCEPT ![c] = Tail(@)]
                   /\ lsugg' = [lsugg EXCEPT ![c] =
                                   IF body = "append"
                                   THEN Append(@, suggestion) ELSE @]
                   /\ UNCHANGED <<paramsLock, lerr>>
    /\ UNCHANGED <<lparams, mheap, theap, lop, lP, lreq, lgot, lsnap,
                   lnoRules, linvalid, lastSetVal, gotVal, expectVal,
                   lallSwaps, lscan, impl, loopState, pureState, calls, muts>>

\* return suggestions, nil after the loop, and the deferred unlock.
SuggestSwaps_return(c) ==
    /\ LockManager
    /\ lpc[c] = "rules"
    /\ leligible[c] = <<>>
    /\ lpc' = [lpc EXCEPT ![c] = "idle"]
    /\ lerr' = [lerr EXCEPT ![c] = "nil"]
    /\ paramsLock' = "free"
    /\ UNCHANGED <<lparams, mheap, theap, lop, lP, lreq, lgot, lsnap, lext,
                   lnoRules, linvalid, lastSetVal, gotVal, expectVal,
                   suggestState, impl, loopState, pureState, calls, muts>>

(***************************************************************************)
(* The ratio rule: shouldSwap, calculateSwapRatio and RatioRule.getSwaps.  *)
(*                                                                         *)
(* The float32 arithmetic of these functions is modelled bit by bit, with   *)
(* rounding to the nearest value, ties to even.                            *)
(***************************************************************************)
\* The largest number of calls of calculateSwapRatio that are compared.
MaxShifts == 2

\* The longest list of balances handed to getSwaps.
MaxBalances == 2

\* Action.
ActionNone == "No action"
ActionLoopOut == "Loop out"
ActionLoopIn == "Loop in"

\* Reason.
ReasonImbalanced == "Channels imbalanced"
ReasonNoCapacity == "No capacity"
ReasonNoSurplus == "No surplus"
ReasonLiquidityOk == "Liquidity ok"
ReasonMinimumAmount == "Imbalance amount less than minimum swap amount"

\* swap.Type.
TypeOut == "out"
TypeIn == "in"

\* The balances struct.
balances(capacity, incoming, outgoing, channelID) ==
    [capacity |-> capacity, incoming |-> incoming, outgoing |-> outgoing,
     channelID |-> channelID]

\* NewRatioRule.
NewRatioRule(minimumInbound, minimumOutbound) ==
    [MinimumInbound |-> minimumInbound, MinimumOutbound |-> minimumOutbound]

\* NewRestrictions.
NewRestrictions(minimum, maximum) ==
    [MinimumAmount |-> minimum, MaximumAmount |-> maximum]

Abs(x) == IF x < 0 THEN -x ELSE x

\* A float32 value is m * 2^e with a mantissa m of 24 bits, zero, or NaN.
\* The exponents of the model stay far from the ends of the float32 range,
\* so there are no subnormal numbers and no overflow.
MantissaBits == 24
Lead == 2 ^ (MantissaBits - 1)
Full == 2 ^ MantissaBits

Float(m, e) == [nan |-> FALSE, m |-> m, e |-> e]

\* The float32 value that compares with nothing: the quotient 0 / 0.
NaN == [nan |-> TRUE, m |-> 0, e |-> 0]

Zero == Float(0, 0)

\* m * 2^e for a mantissa that fits in 24 bits, with the leading bit set.
RECURSIVE Normal(_, _)
Normal(m, e) ==
    IF m = 0 THEN Zero
    ELSE IF Abs(m) < Lead THEN Normal(2 * m, e - 1)
    ELSE Float(m, e)

\* The number of low bits that a number has beyond 24.
RECURSIVE Excess(_)
Excess(a) == IF a < Full THEN 0 ELSE 1 + Excess(a \div 2)

\* The float32 value nearest to s * 2^e, ties to the even mantissa.
Rounded(s, e) ==
    LET a == Abs(s)
        k == Excess(a)
        q == a \div (2 ^ k)
        rem == a % (2 ^ k)
        up == /\ k > 0
              /\ \/ rem > 2 ^ (k - 1)
                 \/ rem = 2 ^ (k - 1) /\ q % 2 = 1
        mant == IF up THEN q + 1 ELSE q
        sign == IF s < 0 THEN -1 ELSE 1
    IN  IF k = 0 THEN Normal(s, e)
        ELSE IF mant = Full THEN Float(sign * Lead, e + k + 1)
        ELSE Float(sign * mant, e + k)

\* The lowest bit of q set when bits that were dropped below it are not all
\* zero.
Sticky(q, lost) == IF lost # 0 /\ q % 2 = 0 THEN q + 1 ELSE q

\* float32(n) of an integer.
float32(n) == Rounded(n, 0)

\* k more bits of the quotient of r by d, appended to q.
RECURSIVE LongDivision(_, _, _, _)
LongDivision(r, d, q, k) ==
    IF k = 0 THEN [q |-> q, r |-> r]
    ELSE LET bit == IF 2 * r >= d THEN 1 ELSE 0
         IN  LongDivision(2 * r - bit * d, d, 2 * q + bit, k - 1)

\* x / y in float32.  A balance never exceeds its capacity, so the only
\* division by zero is 0 / 0.
Div(x, y) ==
    IF x.nan \/ y.nan \/ y.m = 0 THEN NaN
    ELSE IF x.m = 0 THEN Zero
    ELSE LET a == Abs(x.m)
             b == Abs(y.m)
             first == IF a >= b THEN 1 ELSE 0
             k == IF a >= b THEN MantissaBits ELSE MantissaBits + 1
             d == LongDivision(a - first * b, b, first, k)
             sign == IF (x.m < 0) # (y.m < 0) THEN -1 ELSE 1
         IN  Rounded(sign * Sticky(2 * d.q, d.r), x.e - y.e - k - 1)

\* x + y in float32: the operand of the lower exponent is shifted under three
\* more bits of the other.
Plus(x, y) ==
    IF x.nan \/ y.nan THEN NaN
    ELSE IF x.m = 0 THEN y
    ELSE IF y.m = 0 THEN x
    ELSE LET hi == IF x.e >= y.e THEN x ELSE y
             lo == IF x.e >= y.e THEN y ELSE x
             k == hi.e - lo.e
             mag == 8 * Abs(lo.m)
             shifted == IF k > MantissaBits + 3 THEN 1
                        ELSE Sticky(mag \div (2 ^ k), mag % (2 ^ k))
         IN  Rounded(8 * hi.m + (IF lo.m < 0 THEN -shifted ELSE shifted),
                     hi.e - 3)

\* x - y and x / 2 in float32.
Minus(x, y) == Plus(x, [y EXCEPT !.m = -y.m])

Halved(x) == IF x.nan \/ x.m = 0 THEN x ELSE Float(x.m, x.e - 1)

\* x * y in float32: the 48 bits of the product of the mantissas are formed
\* from halves of 12 bits.
Times(x, y) ==
    IF x.nan \/ y.nan THEN NaN
    ELSE IF x.m = 0 \/ y.m = 0 THEN Zero
    ELSE LET limb == 2 ^ 12
             a == Abs(x.m)
             b == Abs(y.m)
             p0 == (a % limb) * (b % limb)
             p1 == (a \div limb) * (b % limb) + (a % limb) * (b \div limb)
                   + (p0 \div limb)
             p2 == (a \div limb) * (b \div limb) + (p1 \div limb)
             low == (p1 % limb) * limb + (p0 % limb)
             sign == IF (x.m < 0) # (y.m < 0) THEN -1 ELSE 1
         IN  Rounded(sign * Sticky(8 * p2 + (low \div (2 ^ 21)),
                                   low % (2 ^ 21)),
                     x.e + y.e + 21)

\* x < y and x <= y in float32: false as soon as one side is NaN.
Below(x, y) ==
    IF x.m = 0 THEN y.m > 0
    ELSE IF y.m = 0 THEN x.m < 0
    ELSE IF (x.m < 0) # (y.m < 0) THEN x.m < 0
    ELSE IF x.m > 0 THEN x.e < y.e \/ (x.e = y.e /\ x.m < y.m)
    ELSE x.e > y.e \/ (x.e = y.e /\ x.m < y.m)

Less(x, y) == ~x.nan /\ ~y.nan /\ Below(x, y)

LessEq(x, y) == ~x.nan /\ ~y.nan /\ (x = y \/ Below(x, y))

\* float32(n) / float32(d).
Quotient(n, d) == Div(float32(n), float32(d))

\* The float32 value of a threshold given in hundredths.
Hundredths(m) == Quotient(m, One)

\* The lowest and the largest btcutil.Amount.  An int64 holds -2^63 to
\* 2^63 - 1; the integers here are 32 bits wide, and the two ends of their
\* range stand for the two ends of the int64: they are below and above
\* every other amount, and amounts that come from NaN are only compared.
MinAmount == -(2 ^ 30) - 2 ^ 30
MaxAmount == 2 ^ 30 + (2 ^ 30 - 1)

\* What the conversion of NaN to btcutil.Amount can yield: the Go
\* specification leaves it to the implementation (amd64 yields the lowest
\* int64, arm64 yields zero, riscv64 and mips64 yield the largest int64).
NaNAmounts == {MinAmount, 0, MaxAmount}

\* btcutil.Amount(x): truncation towards zero; nan is what the build yields
\* for NaN.
Amount(x, nan) ==
    IF x.nan THEN nan
    ELSE IF x.e >= 0 THEN x.m * 2 ^ x.e
    ELSE IF -x.e > 30 THEN 0
    ELSE IF x.m >= 0 THEN x.m \div (2 ^ (-x.e))
    ELSE -((-x.m) \div (2 ^ (-x.e)))

\* balances.incomingRatio and balances.outgoingRatio.
incomingRatio(b) == Quotient(b.incoming, b.capacity)

outgoingRatio(b) == Quotient(b.outgoing, b.capacity)

\* The comparison that finds a deficit in shouldSwap.
Deficit_orEqual(current, minimum) == LessEq(current, minimum)

Deficit(current, minimum) == Less(current, minimum)

\* shouldSwap.
shouldSwap(total, minInbound, minOutbound) ==
    IF total.capacity = 0
    THEN [action |-> ActionNone, reason |-> ReasonNoCapacity]
    ELSE LET currentInbound == incomingRatio(total)
             currentOutbound == outgoingRatio(total)
             inboundDeficit == Deficit(currentInbound, minInbound)
             outboundDeficit == Deficit(currentOutbound, minOutbound)
         IN  CASE inboundDeficit /\ outboundDeficit ->
                      [action |-> ActionNone, reason |-> ReasonNoSurplus]
               [] inboundDeficit /\ ~outboundDeficit ->
                      [action |-> ActionLoopOut, reason |-> ReasonImbalanced]
               [] ~inboundDeficit /\ outboundDeficit ->
                      [action |-> ActionLoopIn, reason |-> ReasonImbalanced]
               [] OTHER ->
                      [action |-> ActionNone, reason |-> ReasonLiquidityOk]

\* shouldSwap has not been called.
NotDecided == [action |-> "none", reason |-> "none"]

\* The midpoint of the range of ratios that satisfies both minimums.
Midpoint_ofMinimums(deficitMinimum, surplusMinimum) ==
    Halved(Plus(deficitMinimum, surplusMinimum))

Midpoint(deficitMinimum, surplusMinimum) ==
    Halved(Plus(deficitMinimum, Minus(Hundredths(One), surplusMinimum)))

\* The available surplus covers the distance to the midpoint.
ReachesMidpoint_inverted(midpointDelta, available) ==
    Less(available, midpointDelta)

ReachesMidpoint(midpointDelta, available) ==
    LessEq(midpointDelta, available)

\* calculateSwapRatio.
calculateSwapRatio(deficitCurrent, deficitMinimum, surplusCurrent, surplusMinimum) ==
    LET required == Minus(deficitMinimum, deficitCurrent)
        available == Minus(surplusCurrent, surplusMinimum)
        midpoint == Midpoint(deficitMinimum, surplusMinimum)
        midpointDelta == Minus(midpoint, deficitCurrent)
    IN  IF LessEq(available, required) THEN Halved(available)
        ELSE IF ReachesMidpoint(midpointDelta, available) THEN midpointDelta
        ELSE required

\* newSwapSet; a nil slice of swaps is the empty sequence.
newSwapSet(action, reason, swapList) ==
    [Action |-> action, Reason |-> reason, Swaps |-> swapList]

\* The sum of a field over a list of balances.
RECURSIVE Total(_, _)
Total(channelBalances, field) ==
    IF channelBalances = <<>> THEN 0
    ELSE Head(channelBalances)[field] + Total(Tail(channelBalances), field)

\* totalBalance of getSwaps: all balances combined.
TotalBalance(channelBalances) ==
    balances(Total(channelBalances, "capacity"),
             Total(channelBalances, "incoming"),
             Total(channelBalances, "outgoing"), 0)

\* shiftRatio of getSwaps: the ratio of the total capacity to move for a
\* loop out or a loop in.
ShiftRatio(r, totalBalance, action) ==
    IF action = ActionLoopOut
    THEN calculateSwapRatio(incomingRatio(totalBalance),
                            Hundredths(r.MinimumInbound),
                            outgoingRatio(totalBalance),
                            Hundredths(r.MinimumOutbound))
    ELSE calculateSwapRatio(outgoingRatio(totalBalance),
                            Hundredths(r.MinimumOutbound),
                            incomingRatio(totalBalance),
                            Hundredths(r.MinimumInbound))

\* amt of getSwaps: float32(totalBalance.capacity) * shiftRatio.
ShiftAmount(r, totalBalance, action) ==
    Times(float32(totalBalance.capacity), ShiftRatio(r, totalBalance, action))

\* The amount to move is less than the minimum swap amount.
UnderMinimum_orEqual(amt, restrictions) ==
    LessEq(amt, float32(restrictions.MinimumAmount))

UnderMinimum_never(amt, restrictions) == FALSE

UnderMinimum(amt, restrictions) ==
    Less(amt, float32(restrictions.MinimumAmount))

\* The surplus of a channel in its outgoing balance, whatever the direction.
Surplus_ofOutgoing(r, channel, swapType) ==
    Minus(outgoingRatio(channel), Hundredths(r.MinimumOutbound))

\* The surplus of a channel in the direction of the swap.
Surplus(r, channel, swapType) ==
    IF swapType = TypeIn
    THEN Minus(incomingRatio(channel), Hundredths(r.MinimumInbound))
    ELSE Minus(outgoingRatio(channel), Hundredths(r.MinimumOutbound))

\* The channels with surplus that getSwaps hands to selectSingleSwap.
RECURSIVE ChannelSurpluses(_, _, _, _)
ChannelSurpluses(r, channelBalances, swapType, nan) ==
    IF channelBalances = <<>> THEN <<>>
    ELSE LET channel == Head(channelBalances)
             surplus == Surplus(r, channel, swapType)
             rest == ChannelSurpluses(r, Tail(channelBalances), swapType,
                                      nan)
         IN  IF LessEq(surplus, Zero) THEN rest
             ELSE <<channelSurplus(
                        Amount(Times(float32(channel.capacity), surplus),
                               nan),
                        channel.channelID)>> \o rest

\* RatioRule.getSwaps; nan is what the build yields for btcutil.Amount(NaN).
getSwaps(r, channelBalances, outRestrictions, inRestrictions, nan) ==
    LET totalBalance == TotalBalance(channelBalances)
        d == shouldSwap(totalBalance, Hundredths(r.MinimumInbound),
                        Hundredths(r.MinimumOutbound))
        swapType == IF d.action = ActionLoopOut THEN TypeOut ELSE TypeIn
        restrictions == IF d.action = ActionLoopOut THEN outRestrictions
                        ELSE inRestrictions
        amt == ShiftAmount(r, totalBalance, d.action)
        channels == ChannelSurpluses(r, channelBalances, swapType, nan)
        swapList == selectSingleSwap(channels, Amount(amt, nan),
                                     restrictions.MinimumAmount,
                                     restrictions.MaximumAmount)
    IN  IF d.action = ActionNone THEN newSwapSet(d.action, d.reason, <<>>)
        ELSE IF UnderMinimum(amt, restrictions)
        THEN newSwapSet(d.action, ReasonMinimumAmount, <<>>)
        ELSE newSwapSet(d.action, d.reason, swapList)

\* The balances that incomingRatio and outgoingRatio are invoked on while
\* getSwaps runs, in order: the total in shouldSwap, the total for
\* calculateSwapRatio, each channel for its surplus.
RatioInvocations(r, channelBalances, outRestrictions, inRestrictions) ==
    LET totalBalance == TotalBalance(channelBalances)
        d == shouldSwap(totalBalance, Hundredths(r.MinimumInbound),
                        Hundredths(r.MinimumOutbound))
        restrictions == IF d.action = ActionLoopOut THEN outRestrictions
                        ELSE inRestrictions
        amt == ShiftAmount(r, totalBalance, d.action)
    IN  IF totalBalance.capacity = 0 THEN <<>>
        ELSE IF d.action = ActionNone THEN <<totalBalance, totalBalance>>
        ELSE IF UnderMinimum(amt, restrictions)
        THEN <<totalBalance, totalBalance, totalBalance, totalBalance>>
        ELSE <<totalBalance, totalBalance, totalBalance, totalBalance>>
             \o channelBalances

\* getSwaps has not been called.
NotSuggested == [done |-> FALSE, set |-> newSwapSet(ActionNone, "none", <<>>),
                 invoked |-> <<>>, nan |-> 0]

(***************************************************************************)
(* Manager.suggestSwaps: the rule applied to the node or to each peer.     *)
(***************************************************************************)
\* lndclient.ChannelInfo, of the fields that suggestSwaps reads.
ChannelInfo(channelID, pubKeyBytes, private, capacity, localBalance, remoteBalance) ==
    [ChannelID |-> channelID, PubKeyBytes |-> pubKeyBytes,
     Private |-> private, Capacity |-> capacity,
     LocalBalance |-> localBalance, RemoteBalance |-> remoteBalance]

\* The balances that suggestSwaps creates for a channel.
ChannelBalances(channel) ==
    balances(channel.Capacity, channel.RemoteBalance, channel.LocalBalance,
             channel.ChannelID)

\* The channel is private and private channels are not included.
Skipped(p, channel) == channel.Private /\ ~p.IncludePrivate

\* nodeBalances after the loop over the channels; a rule that is not set is
\* <<>>, a rule that is set is <<rule>>.
RECURSIVE nodeBalances(_, _)
nodeBalances(p, channels) ==
    IF channels = <<>> THEN <<>>
    ELSE LET channel == Head(channels)
             rest == nodeBalances(p, Tail(channels))
         IN  IF Skipped(p, channel) \/ p.NodeRule = <<>> THEN rest
             ELSE <<ChannelBalances(channel)>> \o rest

\* peerBalances after the loop over the channels: the balances of the
\* channels of each peer, in the order of the channels.
RECURSIVE peerBalances(_, _)
peerBalances(p, channels) ==
    IF channels = <<>> THEN <<>>
    ELSE LET channel == Head(channels)
             rest == peerBalances(p, Tail(channels))
             peer == channel.PubKeyBytes
             others == IF peer \in DOMAIN rest THEN rest[peer] ELSE <<>>
         IN  IF Skipped(p, channel) \/ p.PeerRule = <<>> THEN rest
             ELSE [k \in DOMAIN rest \cup {peer} |->
                      IF k = peer THEN <<ChannelBalances(channel)>> \o others
                      ELSE rest[k]]

\* The orders in which a range over a map with the keys of the set visits
\* them: Go does not specify the order.
Orders(keys) ==
    {o \in [1..Cardinality(keys) -> keys] :
        \A i, j \in 1..Cardinality(keys) : i # j => o[i] # o[j]}

\* What suggestSwaps returns: the error and the fields of the SwapSuggestion.
Suggested(e, rule, suggestions) ==
    [err |-> e, Rule |-> rule, Suggestions |-> suggestions]

\* Manager.suggestSwaps with m.params = params (<<>> for nil, <<p>> for a
\* pointer to p), restrictions of m.cfg, on a build that converts NaN to nan
\* and ranges over peerBalances in the order visit.  The nil pointer is
\* dereferenced by the first condition: the goroutine panics.
SwapSuggestion(params, channels, outRestrictions, inRestrictions, nan, visit) ==
    IF params = <<>> THEN Suggested("panic", <<>>, <<>>)
    ELSE LET p == params[1]
         IN  IF p.NodeRule # <<>> /\ p.PeerRule # <<>>
             THEN Suggested("ErrNoRules", <<>>, <<>>)
             ELSE IF p.NodeRule # <<>>
             THEN Suggested("nil", p.NodeRule,
                            <<getSwaps(p.NodeRule[1],
                                       nodeBalances(p, channels),
                                       outRestrictions, inRestrictions,
                                       nan)>>)
             ELSE IF p.PeerRule # <<>>
             THEN Suggested("nil", p.PeerRule,
                            [i \in 1..Len(visit) |->
                                getSwaps(p.PeerRule[1],
                                         peerBalances(p, channels)[visit[i]],
                                         outRestrictions, inRestrictions,
                                         nan)])
             ELSE Suggested("ErrNoRules", <<>>, <<>>)

\* suggestSwaps has not been called.
NotRun == [done |-> FALSE, result |-> Suggested("none", <<>>, <<>>),
           visited |-> <<>>, nan |-> 0]

(***************************************************************************)
(* The control-loop manager and its callers.                               *)
(***************************************************************************)
\* The calls a caller makes and what it does between them.
CallerStep(c) ==
    \/ \E a \in DOMAIN rheap, f \in {"MinimumInbound", "MinimumOutbound"},
          v \in MutationValues : MutateRule(c, a, f, v)
    \/ \E p \in DOMAIN pheap, f \in {"NodeRule", "PeerRule"},
          x \in DOMAIN rheap \cup {NIL} : MutateParameters(c, p, f, x)
    \/ \E p \in DOMAIN pheap, x \in BOOLEAN :
          MutateParameters(c, p, "IncludePrivate", x)
    \/ \E v \in ParameterChoices : Call_UpdateParameters(c, v)
    \/ Call_UpdateParameters_again(c)
    \/ Call_UpdateParameters_nil(c)
    \/ UpdateParameters_response(c)
    \/ SuggestSwap(c)
    \/ SuggestSwap_response(c)

\* The steps of the goroutine in run that serve requests, and the end of
\* the process when it panics.
ServeStep ==
    \/ \E c \in Callers : run_paramRequests(c)
    \/ run_paramRequests_store
    \/ run_paramRequests_response
    \/ \E c \in Callers : run_suggestionRequests(c)
    \/ \E ok \in BOOLEAN : run_ListChannels(ok)
    \/ run_suggestSwaps
    \/ run_panicExit

\* The manager serving callers that read, replace and mutate parameters.
NextLoop ==
    \/ \E c \in Callers : CallerStep(c)
    \/ Run("r1")
    \/ ServeStep

\* No pure function is under evaluation.
NoValidateInputs ==
    /\ ruleIn = 0
    /\ ruleOut = 0
    /\ validated = "none"

\* getEligibleChannels is not under evaluation.
NoEligibleInputs ==
    /\ clockNow = 0
    /\ allSwaps = <<>>
    /\ listedChannels = <<>>
    /\ listFails = FALSE
    /\ eligible = NotEvaluated
    /\ scanned = NotListing

\* selectSingleSwap is not under evaluation.
NoSelectInputs ==
    /\ surpluses = <<>>
    /\ amount = 0
    /\ minSwapAmount = 0
    /\ maxSwapAmount = 0
    /\ selected = NotSelected

\* checkFeeLimits is not under evaluation.
NoFeeInputs ==
    /\ feeParams = FeeLimits(DefaultSwapFeePPM, DefaultMinerFee, DefaultPrepay)
    /\ quote = Quote(0, 0, 0)
    /\ suggestionAmt = 0
    /\ feeErr = "none"

\* suggestSwaps is not under evaluation.
NoScopeInputs ==
    /\ scopeParams = <<>>
    /\ scopeChannels = <<>>
    /\ scopeResult = NotRun

\* shouldSwap, calculateSwapRatio and getSwaps are not under evaluation.
NoRatioInputs ==
    /\ swapBalances = balances(0, 0, 0, 0)
    /\ swapMinIn = 0
    /\ swapMinOut = 0
    /\ decision = NotDecided
    /\ shifts = <<>>
    /\ balanceList = <<>>
    /\ swapRule = NewRatioRule(0, 0)
    /\ restrictOut = NewRestrictions(0, 0)
    /\ restrictIn = NewRestrictions(0, 0)
    /\ swapSet = NotSuggested
    /\ NoScopeInputs

NoPureInputs ==
    /\ NoValidateInputs
    /\ NoEligibleInputs
    /\ NoSelectInputs
    /\ NoFeeInputs
    /\ NoRatioInputs

\* The program built with the control-loop manager.
InitLoop ==
    /\ impl = "loop"
    /\ NewManager
    /\ NewLockManager
    /\ order = Unobserved
    /\ NoPureInputs
    /\ calls = 0
    /\ muts = 0

SpecLoop == InitLoop /\ [][NextLoop]_vars

\* The Parameters values that pass validation.
ValidChoices ==
    {v \in ParameterChoices :
        /\ v.NodeRule = <<>> \/ v.PeerRule = <<>>
        /\ v.NodeRule = <<>> \/ RatioRule_validate(v.NodeRule[1]) = "nil"
        /\ v.PeerRule = <<>> \/ RatioRule_validate(v.PeerRule[1]) = "nil"}

\* The manager serving callers whose contexts are cancelled, and shut down
\* by the cancellation of the context of Run.
NextCancel ==
    \/ \E c \in Callers, v \in ValidChoices : Call_UpdateParameters(c, v)
    \/ \E c \in Callers : Call_UpdateParameters_nil(c)
    \/ \E c \in Callers : UpdateParameters_response(c)
    \/ \E c \in Callers : SuggestSwap(c)
    \/ \E c \in Callers : SuggestSwap_response(c)
    \/ \E c \in Callers : CancelContext(c)
    \/ \E c \in Callers : Select_ctxDone(c)
    \/ \E c \in Callers : Select_done(c)
    \/ Run("r1")
    \/ CancelRun
    \/ run_ctxDone
    \/ ServeStep

SpecCancel == InitLoop /\ [][NextCancel]_vars

\* A goroutine in a select with a case that is ready takes a case: a caller
\* in its first select returns once done is closed.
SpecCancelFair ==
    SpecCancel
    /\ \A c \in Callers : WF_vars(Select_done(c) \/ Select_ctxDone(c))

\* The goroutine in run, once it has accepted a request, goes on to the end
\* of its handling: the parameters are stored and sent, ListChannels returns
\* and suggestSwaps is computed without waiting for any caller; a panic ends
\* the process.
SpecHandlingFair ==
    SpecCancel
    /\ WF_vars(run_paramRequests_store \/ run_paramRequests_response)
    /\ WF_vars((\E ok \in BOOLEAN : run_ListChannels(ok)) \/ run_suggestSwaps)
    /\ WF_vars(run_panicExit)

\* The manager serving callers of UpdateParameters and SuggestSwap, with the
\* order of their calls and of their service observed.
InitOrder ==
    /\ impl = "loop"
    /\ NewManager
    /\ NewLockManager
    /\ order = Observed
    /\ NoPureInputs
    /\ calls = 0
    /\ muts = 0

NextOrder ==
    \/ \E c \in Callers, v \in ValidChoices : Call_UpdateParameters(c, v)
    \/ \E c \in Callers : Call_UpdateParameters_nil(c)
    \/ \E c \in Callers : UpdateParameters_response(c)
    \/ \E c \in Callers : SuggestSwap(c)
    \/ \E c \in Callers : SuggestSwap_response(c)
    \/ Run("r1")
    \/ ServeStep

SpecOrder == InitOrder /\ [][NextOrder]_vars

\* The same manager with callers that also write to the parameters they
\* passed and were returned.
SpecObserved == InitOrder /\ [][NextLoop]_vars

\* Several goroutines calling Run on one manager, which serves lookups.
NextRun ==
    \/ \E r \in Runners : Run(r)
    \/ CancelRun
    \/ run_ctxDone
    \/ Call_UpdateParameters_nil("c1")
    \/ UpdateParameters_response("c1")
    \/ Select_done("c1")
    \/ run_paramRequests("c1")
    \/ run_paramRequests_store
    \/ run_paramRequests_response

SpecRun == InitLoop /\ [][NextRun]_vars

(***************************************************************************)
(* The lock-based manager and its callers.                                 *)
(***************************************************************************)
\* The calls a caller makes and what it does between them.
LockCallerStep(c) ==
    \/ \E a \in DOMAIN theap, f \in {"MinimumIncoming", "MinimumOutgoing"},
          v \in ThresholdMutationValues : MutateThresholdRule(c, a, f, v)
    \/ \E m \in DOMAIN mheap, k \in ChanIDs :
          MutateChannelRules_put(c, m, k)
    \/ \E m \in DOMAIN mheap, k \in ChanIDs :
          MutateChannelRules_delete(c, m, k)
    \/ GetParameters(c)
    \/ \E v \in ChannelParameterChoices : Call_SetParameters(c, v)
    \/ Call_SetParameters_again(c)
    \/ SetParameters_locked(c)
    \/ SuggestSwaps(c)
    \/ \E ok \in BOOLEAN : SuggestSwaps_LoopOutRestrictions(c, ok)
    \/ \E ok \in BOOLEAN, existing \in ListedSwaps :
          SuggestSwaps_ListSwaps(c, ok, existing)
    \/ SuggestSwaps_getEligibleChannels(c)
    \/ \E lndFails \in BOOLEAN : SuggestSwaps_ListChannels(c, lndFails)
    \/ \E advice \in SuggestOutcomes : SuggestSwaps_channel(c, advice)
    \/ \E answer \in QuoteOutcomes : SuggestSwaps_LoopOutQuote(c, answer)
    \/ SuggestSwaps_return(c)

NextLock == \E c \in Callers : LockCallerStep(c)

\* The program built with the lock-based manager.
InitLock ==
    /\ impl = "lock"
    /\ NewManager
    /\ NewLockManager
    /\ order = Unobserved
    /\ NoPureInputs
    /\ calls = 0
    /\ muts = 0

SpecLock == InitLock /\ [][NextLock]_vars

\* The Parameters value set before suggestions are asked for: rules for
\* channels 1 and 2.
SuggestParameterChoices ==
    { [limits |-> DefaultLimits,
       rules |-> (1 :> NewThresholdRule(10, 10)
                  @@ 2 :> NewThresholdRule(20, 20))] }

\* The lock-based manager asked for suggestions between calls of
\* SetParameters and GetParameters.
NextSuggest ==
    \/ \E c \in Callers, a \in DOMAIN theap,
          f \in {"MinimumIncoming", "MinimumOutgoing"},
          v \in ThresholdMutationValues : MutateThresholdRule(c, a, f, v)
    \/ \E c \in Callers, v \in SuggestParameterChoices :
          Call_SetParameters(c, v)
    \/ \E c \in Callers : SetParameters_locked(c)
    \/ \E c \in Callers : GetParameters(c)
    \/ \E c \in Callers : SuggestSwaps(c)
    \/ \E c \in Callers, ok \in BOOLEAN :
          SuggestSwaps_LoopOutRestrictions(c, ok)
    \/ \E c \in Callers, ok \in BOOLEAN, existing \in ListedSwaps :
          SuggestSwaps_ListSwaps(c, ok, existing)
    \/ \E c \in Callers : SuggestSwaps_getEligibleChannels(c)
    \/ \E c \in Callers, lndFails \in BOOLEAN :
          SuggestSwaps_ListChannels(c, lndFails)
    \/ \E c \in Callers, advice \in SuggestOutcomes :
          SuggestSwaps_channel(c, advice)
    \/ \E c \in Callers, answer \in QuoteOutcomes :
          SuggestSwaps_LoopOutQuote(c, answer)
    \/ \E c \in Callers : SuggestSwaps_return(c)

\* The program built with the lock-based manager, with MaxSuggestCalls calls
\* to make.
InitSuggest ==
    /\ impl = "lock"
    /\ NewManager
    /\ NewLockManager
    /\ order = Unobserved
    /\ NoPureInputs
    /\ calls = MaxCalls - MaxSuggestCalls
    /\ muts = 0

SpecSuggest == InitSuggest /\ [][NextSuggest]_vars

\* The program built with either manager and asked for suggestions: the
\* lock-based manager as above, the control-loop manager between updates
\* and lookups of its parameters.
InitUpstream ==
    /\ impl \in {"loop", "lock"}
    /\ NewManager
    /\ NewLockManager
    /\ order = Unobserved
    /\ NoPureInputs
    /\ calls = MaxCalls - MaxSuggestCalls
    /\ muts = 0

NextUpstream ==
    \/ NextSuggest
    \/ \E c \in Callers, v \in ValidChoices : Call_UpdateParameters(c, v)
    \/ \E c \in Callers : Call_UpdateParameters_nil(c)
    \/ \E c \in Callers : UpdateParameters_response(c)
    \/ \E c \in Callers : SuggestSwap(c)
    \/ \E c \in Callers : SuggestSwap_response(c)
    \/ Run("r1")
    \/ ServeStep

SpecUpstream == InitUpstream /\ [][NextUpstream]_vars

\* Parameters values with a rule for one of the channels of lnd, or for both.
RuledParameterChoices ==
    { [limits |-> DefaultLimits, rules |-> (1 :> NewThresholdRule(10, 10))],
      [limits |-> DefaultLimits, rules |-> (2 :> NewThresholdRule(20, 20))],
      [limits |-> DefaultLimits,
       rules |-> (1 :> NewThresholdRule(10, 10)
                  @@ 2 :> NewThresholdRule(20, 20))] }

\* The lock-based manager asked for suggestions after rules were set for some
\* of the channels.
NextRuled ==
    \/ \E c \in Callers, v \in RuledParameterChoices :
          Call_SetParameters(c, v)
    \/ \E c \in Callers : SetParameters_locked(c)
    \/ \E c \in Callers : SuggestSwaps(c)
    \/ \E c \in Callers, ok \in BOOLEAN :
          SuggestSwaps_LoopOutRestrictions(c, ok)
    \/ \E c \in Callers, ok \in BOOLEAN, existing \in ListedSwaps :
          SuggestSwaps_ListSwaps(c, ok, existing)
    \/ \E c \in Callers : SuggestSwaps_getEligibleChannels(c)
    \/ \E c \in Callers, lndFails \in BOOLEAN :
          SuggestSwaps_ListChannels(c, lndFails)
    \/ \E c \in Callers, advice \in SuggestOutcomes :
          SuggestSwaps_channel(c, advice)
    \/ \E c \in Callers, answer \in QuoteOutcomes :
          SuggestSwaps_LoopOutQuote(c, answer)
    \/ \E c \in Callers : SuggestSwaps_return(c)

SpecRuled == InitSuggest /\ [][NextRuled]_vars

\* The Parameters values a caller builds from newParameters() by writing its
\* fee limits and its confirmation target: MaximumSwapFeePPM is an int,
\* MaximumPrepay and MaximumMinerFee are btcutil.Amount (int64) and
\* ConfTarget is an int32, so each can be given a value below zero.
LimitParameterChoices ==
    { [limits |-> [FailureBackOff |-> DefaultFailureBackOff,
                   MaximumPrepay |-> prepay,
                   MaximumSwapFeePPM |-> ppm,
                   MaximumMinerFee |-> miner,
                   ConfTarget |-> target],
       rules |-> EmptyMap] :
        prepay \in {-1, 0, DefaultPrepay}, ppm \in {-1, 0, DefaultSwapFeePPM},
        miner \in {-1, 0, DefaultMinerFee}, target \in {1, DefaultConfTarget} }

\* The lock-based manager given fee limits and confirmation targets.
NextLimits ==
    \/ \E c \in Callers, v \in LimitParameterChoices :
          Call_SetParameters(c, v)
    \/ \E c \in Callers : SetParameters_locked(c)
    \/ \E c \in Callers : GetParameters(c)

SpecLimits == InitLock /\ [][NextLimits]_vars

\* The program built with either manager.
InitManagers ==
    /\ impl \in {"loop", "lock"}
    /\ NewManager
    /\ NewLockManager
    /\ order = Unobserved
    /\ NoPureInputs
    /\ calls = 0
    /\ muts = 0

\* The calls that read and replace the parameters of the manager the program
\* is built with, and the caller writes between them.
NextManagers ==
    \/ \E c \in Callers, a \in DOMAIN rheap,
          f \in {"MinimumInbound", "MinimumOutbound"}, v \in MutationValues :
          MutateRule(c, a, f, v)
    \/ \E c \in Callers, p \in DOMAIN pheap, f \in {"NodeRule", "PeerRule"},
          x \in DOMAIN rheap \cup {NIL} : MutateParameters(c, p, f, x)
    \/ \E c \in Callers, v \in ParameterChoices : Call_UpdateParameters(c, v)
    \/ \E c \in Callers : Call_UpdateParameters_again(c)
    \/ \E c \in Callers : Call_UpdateParameters_nil(c)
    \/ \E c \in Callers : UpdateParameters_response(c)
    \/ \E c \in Callers : run_paramRequests(c)
    \/ run_paramRequests_store
    \/ run_paramRequests_response
    \/ Run("r1")
    \/ \E c \in Callers, a \in DOMAIN theap,
          f \in {"MinimumIncoming", "MinimumOutgoing"},
          v \in ThresholdMutationValues : MutateThresholdRule(c, a, f, v)
    \/ \E c \in Callers, m \in DOMAIN mheap, k \in ChanIDs :
          MutateChannelRules_put(c, m, k)
    \/ \E c \in Callers, m \in DOMAIN mheap, k \in ChanIDs :
          MutateChannelRules_delete(c, m, k)
    \/ \E c \in Callers : GetParameters(c)
    \/ \E c \in Callers, v \in ChannelParameterChoices :
          Call_SetParameters(c, v)
    \/ \E c \in Callers : Call_SetParameters_again(c)
    \/ \E c \in Callers : SetParameters_locked(c)

SpecManagers == InitManagers /\ [][NextManagers]_vars

(***************************************************************************)
(* RatioRule.validate on its own.                                          *)
(***************************************************************************)
\* Thresholds handed to validate, in hundredths: below 0, the ends of
\* [0, 1], above 1, and values whose sums fall on both sides of 1.
RatioInputs == {-100, -1, 0, 1, 20, 39, 40, 50, 60, 61, 99, 100, 101, 120}

\* NewRatioRule(ruleIn, ruleOut).validate().
Validate ==
    /\ validated = "none"
    /\ validated' = RatioRule_validate([MinimumInbound |-> ruleIn,
                                        MinimumOutbound |-> ruleOut])
    /\ UNCHANGED <<ruleIn, ruleOut, eligibleState, selectState, feeState,
                   ratioState, impl, loopState, lockState, calls, muts>>

InitValidate ==
    /\ impl = "loop"
    /\ NewManager
    /\ NewLockManager
    /\ order = Unobserved
    /\ ruleIn \in RatioInputs
    /\ ruleOut \in RatioInputs
    /\ validated = "none"
    /\ NoEligibleInputs
    /\ NoSelectInputs
    /\ NoFeeInputs
    /\ NoRatioInputs
    /\ calls = 0
    /\ muts = 0

NextValidate == Validate

SpecValidate == InitValidate /\ [][NextValidate]_vars

\* The balances and thresholds of TestShouldSwap, in hundredths, with
\* thresholds below, at and above each ratio; a balance set without capacity
\* holds nothing.
BalanceAmounts == {0, 20, 50, 80}
Capacities == {0, One}
ThresholdChoices == {0, 20, 30, 40, 50, 60}
BalanceChoices ==
    {balances(c, i, o, 0) : c \in Capacities, i \in BalanceAmounts,
                            o \in BalanceAmounts}

\* A call of shouldSwap.
Call_shouldSwap ==
    /\ decision = NotDecided
    /\ decision' = shouldSwap(swapBalances, Hundredths(swapMinIn),
                              Hundredths(swapMinOut))
    /\ UNCHANGED <<swapBalances, swapMinIn, swapMinOut, shifts, swapsState,
                   scopeState,
                   validateState, eligibleState, selectState, feeState,
                   impl, loopState, lockState, calls, muts>>

\* shouldSwap called once on any balances that fit their capacity.
InitShould ==
    /\ impl = "lock"
    /\ NewManager
    /\ NewLockManager
    /\ order = Unobserved
    /\ NoValidateInputs
    /\ NoEligibleInputs
    /\ NoSelectInputs
    /\ NoFeeInputs
    /\ swapBalances \in BalanceChoices
    /\ swapBalances.incoming + swapBalances.outgoing <= swapBalances.capacity
    /\ swapMinIn \in ThresholdChoices
    /\ swapMinOut \in ThresholdChoices
    /\ decision = NotDecided
    /\ shifts = <<>>
    /\ balanceList = <<>>
    /\ swapRule = NewRatioRule(0, 0)
    /\ restrictOut = NewRestrictions(0, 0)
    /\ restrictIn = NewRestrictions(0, 0)
    /\ swapSet = NotSuggested
    /\ NoScopeInputs
    /\ calls = 0
    /\ muts = 0

NextShould == Call_shouldSwap

SpecShould == InitShould /\ [][NextShould]_vars

\* The ratios and thresholds of TestCalculateSwapRatio, in hundredths, and
\* those of a node whose capacity is all local under thresholds of 10%.
DeficitCurrents == {0, 10}
DeficitMinimums == {10, 30}
SurplusCurrents == {60, 70, One}
SurplusMinimums == {0, 10, 30}

\* The arguments getSwaps can hand to calculateSwapRatio: the ratios of one
\* set of balances, one below its minimum and the other not.
ShiftChoices ==
    {a \in [deficitCurrent : DeficitCurrents,
            deficitMinimum : DeficitMinimums,
            surplusCurrent : SurplusCurrents,
            surplusMinimum : SurplusMinimums] :
        /\ a.deficitCurrent < a.deficitMinimum
        /\ a.surplusCurrent >= a.surplusMinimum
        /\ a.deficitCurrent + a.surplusCurrent <= One}

\* A call of calculateSwapRatio; its arguments and its result are kept.
Call_calculateSwapRatio ==
    /\ Len(shifts) < MaxShifts
    /\ \E a \in ShiftChoices :
           shifts' = Append(shifts,
               [args |-> a,
                ratio |-> calculateSwapRatio(Hundredths(a.deficitCurrent),
                                             Hundredths(a.deficitMinimum),
                                             Hundredths(a.surplusCurrent),
                                             Hundredths(a.surplusMinimum))])
    /\ UNCHANGED <<shouldState, swapsState, scopeState, validateState,
                   eligibleState,
                   selectState, feeState, impl, loopState, lockState, calls,
                   muts>>

\* No call of calculateSwapRatio has been made.
InitShift ==
    /\ impl = "lock"
    /\ NewManager
    /\ NewLockManager
    /\ order = Unobserved
    /\ NoPureInputs
    /\ calls = 0
    /\ muts = 0

NextShift == Call_calculateSwapRatio

SpecShift == InitShift /\ [][NextShift]_vars

\* The balances of one channel: without capacity, all on one side, even,
\* uneven, and with a part of the capacity in pending htlcs.
ChannelBalanceChoices ==
    {<<0, 0, 0>>, <<One, 0, One>>, <<One, One, 0>>, <<One, 50, 50>>,
     <<One, 20, 80>>, <<One, 80, 20>>, <<One, 20, 20>>}

\* Lists of at most n channel balances; the channel id is the position.
RECURSIVE BalanceLists(_)
BalanceLists(n) ==
    IF n = 0 THEN {<<>>}
    ELSE BalanceLists(n - 1)
         \cup {Append(l, balances(b[1], b[2], b[3], n)) :
                  l \in {k \in BalanceLists(n - 1) : Len(k) = n - 1},
                  b \in ChannelBalanceChoices}

\* Rules that validate accepts, and restrictions whose minimum does not
\* exceed their maximum.
SwapRuleChoices ==
    {NewRatioRule(10, 10), NewRatioRule(40, 40), NewRatioRule(60, 20),
     NewRatioRule(30, 60), NewRatioRule(0, 30)}
RestrictionChoices ==
    {NewRestrictions(0, 100), NewRestrictions(10, 20),
     NewRestrictions(10, 100), NewRestrictions(50, 100)}

\* A call of getSwaps, on a build that converts NaN to nan.
Call_getSwaps ==
    /\ ~swapSet.done
    /\ \E nan \in NaNAmounts :
           swapSet' = [done |-> TRUE,
                       set |-> getSwaps(swapRule, balanceList, restrictOut,
                                        restrictIn, nan),
                       invoked |-> RatioInvocations(swapRule, balanceList,
                                                    restrictOut, restrictIn),
                       nan |-> nan]
    /\ UNCHANGED <<balanceList, swapRule, restrictOut, restrictIn,
                   shouldState, shifts, scopeState, validateState, eligibleState,
                   selectState, feeState, impl, loopState, lockState, calls,
                   muts>>

\* getSwaps called once on any list of balances.
InitSwaps ==
    /\ impl = "loop"
    /\ NewManager
    /\ NewLockManager
    /\ order = Unobserved
    /\ NoValidateInputs
    /\ NoEligibleInputs
    /\ NoSelectInputs
    /\ NoFeeInputs
    /\ swapBalances = balances(0, 0, 0, 0)
    /\ swapMinIn = 0
    /\ swapMinOut = 0
    /\ decision = NotDecided
    /\ shifts = <<>>
    /\ balanceList \in BalanceLists(MaxBalances)
    /\ swapRule \in SwapRuleChoices
    /\ restrictOut \in RestrictionChoices
    /\ restrictIn \in RestrictionChoices
    /\ swapSet = NotSuggested
    /\ NoScopeInputs
    /\ calls = 0
    /\ muts = 0

NextSwaps == Call_getSwaps

SpecSwaps == InitSwaps /\ [][NextSwaps]_vars

\* The peers of the channels, and what a channel holds: all local, all
\* remote, or even.
PeerKeys == {"peer1", "peer2"}
ChannelInfoChoices ==
    {<<peer, private, b>> :
        peer \in PeerKeys, private \in BOOLEAN,
        b \in {<<One, One, 0>>, <<One, 0, One>>, <<One, 50, 50>>}}

\* Lists of at most n channels of lnd; the channel id is the position.
RECURSIVE ChannelInfoLists(_)
ChannelInfoLists(n) ==
    IF n = 0 THEN {<<>>}
    ELSE ChannelInfoLists(n - 1)
         \cup {Append(l, ChannelInfo(n, c[1], c[2], c[3][1], c[3][2],
                                     c[3][3])) :
                  l \in {k \in ChannelInfoLists(n - 1) : Len(k) = n - 1},
                  c \in ChannelInfoChoices}

\* m.params: nil before the first update, and after it a struct that passed
\* validation, with a node rule, a peer rule or neither.
ScopeParameterChoices ==
    {<<>>}
    \cup {<<[NodeRule |-> r[1], PeerRule |-> r[2], IncludePrivate |-> b]>> :
             r \in {<<<<>>, <<>>>>, <<<<NewRatioRule(30, 30)>>, <<>>>>,
                    <<<<>>, <<NewRatioRule(30, 30)>>>>},
             b \in BOOLEAN}

\* The peers that suggestSwaps ranges over.
ScopePeers ==
    IF scopeParams = <<>> THEN {}
    ELSE DOMAIN peerBalances(scopeParams[1], scopeChannels)

\* A call of suggestSwaps, on a build that converts NaN to nan and ranges
\* over the peers in the order visit.
Call_suggestSwaps ==
    /\ ~scopeResult.done
    /\ \E nan \in NaNAmounts, visit \in Orders(ScopePeers) :
           scopeResult' = [done |-> TRUE,
                          result |-> SwapSuggestion(scopeParams,
                                                    scopeChannels,
                                                    restrictOut, restrictIn,
                                                    nan, visit),
                          visited |-> visit,
                          nan |-> nan]
    /\ UNCHANGED <<scopeParams, scopeChannels, shouldState, shifts,
                   swapsState, validateState, eligibleState, selectState,
                   feeState, impl, loopState, lockState, calls, muts>>

\* suggestSwaps called once on any list of channels.
InitScope ==
    /\ impl = "loop"
    /\ NewManager
    /\ NewLockManager
    /\ order = Unobserved
    /\ NoValidateInputs
    /\ NoEligibleInputs
    /\ NoSelectInputs
    /\ NoFeeInputs
    /\ swapBalances = balances(0, 0, 0, 0)
    /\ swapMinIn = 0
    /\ swapMinOut = 0
    /\ decision = NotDecided
    /\ shifts = <<>>
    /\ balanceList = <<>>
    /\ swapRule = NewRatioRule(0, 0)
    /\ restrictOut = NewRestrictions(10, One)
    /\ restrictIn = NewRestrictions(20, One)
    /\ swapSet = NotSuggested
    /\ scopeParams \in ScopeParameterChoices
    /\ scopeChannels \in ChannelInfoLists(MaxBalances)
    /\ scopeResult = NotRun
    /\ calls = 0
    /\ muts = 0

NextScope == Call_suggestSwaps

SpecScope == InitScope /\ [][NextScope]_vars

\* A call of checkFeeLimits.
Call_checkFeeLimits ==
    /\ feeErr = "none"
    /\ feeErr' = checkFeeLimits(feeParams, quote.swap, quote.miner,
                                quote.prepay, suggestionAmt)
    /\ UNCHANGED <<feeParams, quote, suggestionAmt, validateState,
                   eligibleState, selectState, ratioState, impl, loopState,
                   lockState, calls, muts>>

\* checkFeeLimits called once with parameters that SetParameters accepts.
InitFees ==
    /\ impl = "lock"
    /\ NewManager
    /\ NewLockManager
    /\ order = Unobserved
    /\ NoValidateInputs
    /\ NoEligibleInputs
    /\ NoSelectInputs
    /\ NoRatioInputs
    /\ feeParams \in FeeLimitChoices
    /\ quote \in QuoteChoices
    /\ suggestionAmt \in SuggestionAmounts
    /\ feeErr = "none"
    /\ calls = 0
    /\ muts = 0

NextFees == Call_checkFeeLimits

SpecFees == InitFees /\ [][NextFees]_vars

\* A call of selectSingleSwap: sort.SliceStable sorts the slice of the
\* caller in place, which the caller holds sorted after the call.
Call_selectSingleSwap ==
    /\ ~selected.done
    /\ selected' = [done |-> TRUE,
                    recommended |-> selectSingleSwap(surpluses, amount,
                                                     minSwapAmount,
                                                     maxSwapAmount),
                    passed |-> surpluses]
    /\ surpluses' = SliceStable(surpluses)
    /\ UNCHANGED <<amount, minSwapAmount, maxSwapAmount,
                   validateState, eligibleState, feeState, ratioState, impl,
                   loopState, lockState, calls, muts>>

\* selectSingleSwap called once on any arguments.
InitSelect ==
    /\ impl = "lock"
    /\ NewManager
    /\ NewLockManager
    /\ order = Unobserved
    /\ NoValidateInputs
    /\ NoEligibleInputs
    /\ NoFeeInputs
    /\ NoRatioInputs
    /\ surpluses \in SurplusLists(MaxChannels)
    /\ amount \in TargetAmounts
    /\ minSwapAmount \in MinimumAmounts
    /\ maxSwapAmount \in MaximumAmounts
    /\ selected = NotSelected
    /\ calls = 0
    /\ muts = 0

NextSelect == Call_selectSingleSwap

SpecSelect == InitSelect /\ [][NextSelect]_vars

\* A call of getEligibleChannels, made when none is under way and the clock
\* has advanced since the last one: the clock is read and the existing swaps
\* are scanned; the call returns from the scan, or asks lnd for its channels
\* and waits.
Call_getEligibleChannels ==
    /\ ~scanned.waiting
    /\ eligible.done => eligible.readAt < clockNow
    /\ LET acc == ScanExisting(clockNow, allSwaps)
       IN  IF acc.returned # "no"
           THEN /\ eligible' = ReturnedAt(Returned(<<>>, acc.returned, FALSE),
                                          clockNow)
                /\ UNCHANGED scanned
           ELSE /\ scanned' = [waiting |-> TRUE, readAt |-> clockNow,
                               acc |-> acc]
                /\ UNCHANGED eligible
    /\ UNCHANGED <<clockNow, allSwaps, listedChannels, listFails,
                   validateState, selectState, feeState, ratioState, impl,
                   loopState, lockState, calls, muts>>

\* ListChannels returns to the call of getEligibleChannels that waits, which
\* filters the channels and returns.
Call_getEligibleChannels_ListChannels ==
    /\ scanned.waiting
    /\ eligible' = ReturnedAt(FilterChannels(scanned.acc, listedChannels,
                                             listFails), scanned.readAt)
    /\ scanned' = NotListing
    /\ UNCHANGED <<clockNow, allSwaps, listedChannels, listFails,
                   validateState, selectState, feeState, ratioState, impl,
                   loopState, lockState, calls, muts>>

\* The clock advances by one unit of time.
Tick ==
    /\ clockNow < MaxClock
    /\ clockNow' = clockNow + 1
    /\ UNCHANGED <<allSwaps, listedChannels, listFails, eligible, scanned,
                   validateState, selectState, feeState, ratioState, impl,
                   loopState, lockState, calls, muts>>

\* getEligibleChannels called once on any list of existing swaps.
InitEligible ==
    /\ impl = "lock"
    /\ NewManager
    /\ NewLockManager
    /\ order = Unobserved
    /\ NoValidateInputs
    /\ NoSelectInputs
    /\ NoFeeInputs
    /\ NoRatioInputs
    /\ clockNow \in ClockChoices
    /\ allSwaps \in SwapLists(MaxSwaps)
    /\ listedChannels \in ChannelListings
    /\ listFails \in BOOLEAN
    /\ eligible = NotEvaluated
    /\ scanned = NotListing
    /\ calls = 0
    /\ muts = 0

NextEligible ==
    \/ Call_getEligibleChannels
    \/ Call_getEligibleChannels_ListChannels
    \/ Tick

SpecEligible == InitEligible /\ [][NextEligible]_vars

\* The swap is pending and unrestricted: a loop out with no channel set, or a
\* loop in with no last hop peer.
PendingUnrestricted(s) ==
    /\ StateTypePending(s.State)
    /\ \/ s.Type = "out" /\ s.Channels = <<>>
       \/ s.Type = "in" /\ s.Peer = <<>>

\* A pending swap restricted to the channel or to its peer.
PendingInvolves(ch, s) ==
    /\ StateTypePending(s.State)
    /\ \/ s.Type = "out" /\ ch.ChannelID \in Range(s.Channels)
       \/ s.Type = "in" /\ s.Peer = <<ch.PubKeyBytes>>

\* The loop outs that failed off-chain on a channel set.
FailedLoopOuts ==
    {s \in SwapChoices : /\ s.State = "FailOffchainPayments"
                         /\ s.Type = "out"
                         /\ s.Channels # <<>>}

\* The swaps that can accompany the failed loop out f in a history where no
\* other loop out failed, no pending swap is unrestricted and no pending
\* swap involves a listed channel of f or its peer.
Bystanders(f, listing) ==
    {s \in SwapChoices :
        /\ ~(s.State = "FailOffchainPayments" /\ s.Type = "out")
        /\ ~PendingUnrestricted(s)
        /\ \A i \in 1..Len(listing) :
               listing[i].ChannelID \in Range(f.Channels)
                   => ~PendingInvolves(listing[i], s)}

\* The histories of at most MaxSwaps swaps that hold the failed loop out f.
BackOffHistories(f, listing) ==
    {<<f>>}
    \cup {<<f>> \o l : l \in {k \in SwapLists(MaxSwaps - 1) :
                                 Range(k) \subseteq Bystanders(f, listing)}}
    \cup {l \o <<f>> : l \in {k \in SwapLists(MaxSwaps - 1) :
                                 Range(k) \subseteq Bystanders(f, listing)}}

\* A fixed history with one loop out that failed off-chain; the clock starts
\* at the time of the failure and lnd lists its channels.
InitBackOff ==
    /\ impl = "lock"
    /\ NewManager
    /\ NewLockManager
    /\ order = Unobserved
    /\ NoValidateInputs
    /\ NoSelectInputs
    /\ NoFeeInputs
    /\ NoRatioInputs
    /\ listedChannels \in ChannelListings
    /\ listFails = FALSE
    /\ \E f \in FailedLoopOuts :
           /\ allSwaps \in BackOffHistories(f, listedChannels)
           /\ clockNow = f.LastUpdate
    /\ eligible = NotEvaluated
    /\ scanned = NotListing
    /\ calls = 0
    /\ muts = 0

NextBackOff ==
    \/ Call_getEligibleChannels
    \/ Call_getEligibleChannels_ListChannels
    \/ Tick

\* The clock advances, the channels are asked for again once it has, and
\* lnd answers.
SpecBackOff ==
    /\ InitBackOff
    /\ [][NextBackOff]_vars
    /\ WF_vars(Tick)
    /\ WF_vars(Call_getEligibleChannels)
    /\ WF_vars(Call_getEligibleChannels_ListChannels)

(***************************************************************************)
(* Properties.                                                             *)
(***************************************************************************)
\* C1: in the lock-based manager the stored parameters always have the value
\* P had at the last successful SetParameters(P) (that of newParameters()
\* before the first one), whatever the callers have since written into P or
\* into values GetParameters returned them, and every GetParameters returned
\* that value.
C1_GetParametersReturnsLastSet ==
    /\ ChannelParamsVal(lparams, mheap, theap) = lastSetVal
    /\ \A c \in Callers : gotVal[c] # <<>> => gotVal[c] = expectVal[c]

\* C1 happens: a caller set P with a rule, wrote into P so that P no longer
\* has the value it set, and then GetParameters returned the value it set.
C1_Witness ==
    \E c \in Callers :
        /\ lop[c] = "GetParameters"
        /\ lP[c] # <<>>
        /\ muts > 0
        /\ DOMAIN gotVal[c][6] # {}
        /\ gotVal[c] = lastSetVal
        /\ ChannelParamsVal(lP[c][1], mheap, theap) # lastSetVal

\* C2 as stated: in the control-loop manager the stored parameters keep the
\* value they had when the loop stored them, whatever the callers write into
\* the structs and rule objects they passed or were returned.
C2_StoredUnchangedByCallers ==
    mparams # NIL => ParamsVal(mparams, pheap, rheap) = storedVal

\* The stored rule is also written through a suggestion: a caller that was
\* returned a SwapSuggestion, and that holds no Parameters struct, wrote the
\* rule its Rule field points to, and the stored parameters read the write
\* while the caller whose update stored them is still in its call.
C2_WrittenThroughSuggestion ==
    \E c, d \in Callers :
        /\ c # d
        /\ arg[c] = NIL /\ ret[c] = NIL
        /\ retRule[c] # NIL
        /\ retRule[c] \in {pheap[mparams].NodeRule, pheap[mparams].PeerRule}
        /\ kind[d] = "update" /\ pc[d] = "await" /\ applied[d]
        /\ muts = 1
        /\ ParamsVal(mparams, pheap, rheap) # storedVal

\* C3: a call of UpdateParameters or SetParameters whose parameters fail
\* validation has returned a validation error, its request was never
\* received nor stored by the control loop, and the parameters the lock-based
\* manager stores always pass validation.
C3_InvalidRejected ==
    /\ \A c \in Callers :
          invalidCall[c] =>
              /\ pc[c] = "idle"
              /\ err[c] \in ValidationErrors
              /\ ~served[c]
              /\ ~applied[c]
    /\ \A c \in Callers :
          linvalid[c] => lpc[c] = "idle" /\ lerr[c] \in ChannelValidationErrors
    /\ ChannelParameters_validate(lparams, mheap, theap) = {"nil"}
    /\ ChannelParamsVal(lparams, mheap, theap) = lastSetVal

\* C3 happens: parameters with a rule are stored, and a later SetParameters
\* with a rule for channel 0 returned ErrZeroChannelID.
C3_Witness ==
    \E c \in Callers :
        /\ linvalid[c]
        /\ lerr[c] = "ErrZeroChannelID"
        /\ DOMAIN lastSetVal[6] # {}

C5_SingleRuleStored ==
    mparams # NIL =>
        ~(pheap[mparams].NodeRule # NIL /\ pheap[mparams].PeerRule # NIL)

\* C5 happens: parameters with one rule are stored and an update with both
\* rules set returned ErrSingleRule.
C5_Witness ==
    /\ mparams # NIL
    /\ pheap[mparams].NodeRule # NIL \/ pheap[mparams].PeerRule # NIL
    /\ \E c \in Callers : pc[c] = "idle" /\ err[c] = "ErrSingleRule"

\* C6 as stated: while the control loop computes a suggestion, from the
\* receipt of the request to the response, the stored parameters have the
\* value they had when the request was received.
C6_ComputationSeesOneValue ==
    loop \in {"ListChannels", "suggestSwaps"} =>
        ParamsVal(mparams, pheap, rheap) = sugSnap

\* C7: once run has exited, a call waiting to hand its request to the loop
\* leads to that call having returned ErrShuttingDown or its context's
\* error, and no request is received by the loop any more.
C7_ShutdownReleasesCallers ==
    /\ \A c \in Callers :
          (loop = "exited" /\ pc[c] = "enqueue")
              ~> (pc[c] = "idle" /\ err[c] \in {"ErrShuttingDown", "ctx.Err"})
    /\ [][loop = "exited" =>
             /\ \A c \in Callers : served'[c] => served[c]
             /\ mparams' = mparams]_vars

\* C7 happens: run has exited and a call that was never served returned
\* ErrShuttingDown.
C7_Witness ==
    /\ loop = "exited"
    /\ done
    /\ \E c \in Callers :
          pc[c] = "idle" /\ err[c] = "ErrShuttingDown" /\ ~served[c]

\* C8 as stated: a call that returned its context's error did not have its
\* parameters stored by the control loop.
C8_CancelledNeverStored ==
    \A c \in Callers : (pc[c] = "idle" /\ err[c] = "ctx.Err") => ~applied[c]

\* What holds of C8: a call that returned its context's error while waiting
\* to hand over its request was never received by the loop and had no
\* parameters stored.
C8_CancelledBeforeReceiptUntouched ==
    \A c \in Callers :
        (pc[c] = "idle" /\ err[c] = "ctx.Err" /\ cancelledAt[c] = "enqueue")
            => ~served[c] /\ ~applied[c]

\* The loop is about to store the parameters of an UpdateParameters(P) whose
\* caller has already returned its context's error.
C8_StoresAfterReturn ==
    /\ loop = "paramRequests"
    /\ cur = Abandoned
    /\ request # NIL
    /\ mparams # request

\* C9: at most one call of Run ever enters run, and every other call has
\* returned the "manager already started" error.
C9_SingleLoop ==
    /\ loopsEntered <= 1
    /\ Cardinality({r \in Runners : rpc[r] \in {"running", "returned"}}) <= 1
    /\ \A r \in Runners : rpc[r] = "alreadyStarted" => started = 1

\* C9 happens: the loop of one call has exited and a call of Run made after
\* that returned "manager already started".
C9_Witness ==
    /\ loopsEntered = 1
    /\ \E r \in Runners : rpc[r] = "returned"
    /\ \E r \in Runners : rpc[r] = "alreadyStarted" /\ rafter[r]

\* C10 as stated: a SuggestSwaps that found no rule configured returned an
\* error, and made no external call.
C10_NoRulesFails ==
    \A c \in Callers :
        (lop[c] = "SuggestSwaps" /\ lpc[c] = "idle" /\ lnoRules[c]) =>
            /\ lerr[c] # "nil"
            /\ lext[c] = 0

\* C11 as stated: a request made while no parameters were ever set is not
\* fatal: the goroutine in run never panics.
C11_NoParametersNotFatal ==
    loop \notin {"panic", "crashed"}

\* C12: whenever the existing swaps contain a pending unrestricted swap,
\* getEligibleChannels returns no eligible channel, whatever the other swaps
\* and the channels of lnd are.
C12_UnrestrictedSwapNoEligible ==
    (eligible.done /\ \E i \in 1..Len(allSwaps) :
                          PendingUnrestricted(allSwaps[i]))
        => eligible.channels = <<>>

\* getEligibleChannels returned after reading a pending unrestricted loop in
\* that follows a swap restricted to channel 1, while lnd lists channel 2
\* and no swap excludes it.
C12_Witness ==
    /\ eligible.done
    /\ Len(allSwaps) = 2
    /\ allSwaps[1] = NewExistingSwap(0, "Initiated", "out", <<1>>, <<>>)
    /\ allSwaps[2] = NewExistingSwap(0, "Initiated", "in", <<>>, <<>>)
    /\ listedChannels = <<channel1, channel2, channel3>>
    /\ ~listFails
    /\ eligible.channels = <<>>

\* An existing swap excludes the channel: a pending loop out whose channel
\* set holds it, a loop out that failed off-chain after the failure cutoff
\* whose channel set holds it, or a pending loop in whose last hop is its
\* peer.
ExcludedBySwap(ch, s) ==
    \/ /\ StateTypePending(s.State)
       /\ s.Type = "out"
       /\ ch.ChannelID \in Range(s.Channels)
    \/ /\ s.State = "FailOffchainPayments"
       /\ s.Type = "out"
       /\ s.LastUpdate > eligible.readAt - FailureBackOff
       /\ ch.ChannelID \in Range(s.Channels)
    \/ /\ StateTypePending(s.State)
       /\ s.Type = "in"
       /\ s.Peer = <<ch.PubKeyBytes>>

\* C13: when no pending swap is unrestricted and lnd lists its channels, the
\* result holds exactly the listed channels that no existing swap excludes,
\* in listing order.
C13_EligibleCharacterised ==
    (/\ eligible.done
     /\ ~listFails
     /\ \A i \in 1..Len(allSwaps) : ~PendingUnrestricted(allSwaps[i]))
        => /\ eligible.err = "nil"
           /\ eligible.channels =
                  SelectSeq(listedChannels,
                            LAMBDA ch : \A i \in 1..Len(allSwaps) :
                                            ~ExcludedBySwap(ch, allSwaps[i]))

\* getEligibleChannels returned channel1 alone: channels 2 and 3 were in a
\* loop out that failed after the cutoff, and channel3, listed before
\* channel1, is the only one a pending loop in through peer2 leaves out.
C13_Witness ==
    /\ eligible.done
    /\ eligible.readAt = FailureBackOff + 2
    /\ allSwaps = <<NewExistingSwap(3, "FailOffchainPayments", "out",
                                    <<2, 3>>, <<>>),
                    NewExistingSwap(0, "Initiated", "in", <<>>,
                                    <<"peer2">>)>>
    /\ listedChannels = <<channel1, channel2, channel3>>
    /\ eligible.channels = <<channel1>>

\* The loop out of the history that failed off-chain.
BackOffSwap ==
    CHOOSE s \in Range(allSwaps) :
        s.State = "FailOffchainPayments" /\ s.Type = "out"

\* The listed channels of the failed loop out.
BackOffChannels ==
    {ch \in Range(listedChannels) :
        ch.ChannelID \in Range(BackOffSwap.Channels)}

\* The channel is in the result of getEligibleChannels.
InResult(ch) == ch \in Range(eligible.channels)

\* Each channel of the failed loop out is eligible exactly when the failure
\* is not after the cutoff of the call, the reading of the clock that the
\* call made less the backoff.
BackOffExact ==
    eligible.done =>
        \A ch \in BackOffChannels :
            InResult(ch)
                <=> eligible.readAt - FailureBackOff >= BackOffSwap.LastUpdate

\* Every channel of the failed loop out is returned as eligible.
BackOffOver ==
    /\ eligible.done
    /\ \A ch \in BackOffChannels : InResult(ch)

\* C14: with a fixed history in which channel c was in a loop out that failed
\* off-chain at time t, a call that reads the clock as now excludes c while
\* now - FailureBackOff < t and returns it once now - FailureBackOff >= t, a
\* failure exactly at the cutoff not excluding it; as the clock advances c
\* becomes eligible and stays so.
C14_BackOffExpires ==
    [](BackOffExact) /\ <>[](BackOffOver)

\* A call read the clock at the time of the failure plus the backoff and
\* returned the channel of the failed loop out as eligible, after the clock
\* had advanced while it waited for lnd.
C14_Witness ==
    /\ eligible.done
    /\ allSwaps # <<>>
    /\ BackOffChannels # {}
    /\ eligible.readAt - FailureBackOff = BackOffSwap.LastUpdate
    /\ clockNow > eligible.readAt
    /\ \A ch \in BackOffChannels : InResult(ch)

\* C15 as stated: every recommended amount is between minSwapAmount and
\* maxSwapAmount, whatever the arguments.
C15_AmountWithinRestrictions ==
    selected.done =>
        \A i \in 1..Len(selected.recommended) :
            /\ selected.recommended[i].Amount >= minSwapAmount
            /\ selected.recommended[i].Amount <= maxSwapAmount

\* C15 amended: no recommended amount is above maxSwapAmount, and none is
\* below minSwapAmount when the amount asked for is at least minSwapAmount
\* and minSwapAmount is at most maxSwapAmount.
C15_AmountWithinRestrictionsOfTarget ==
    selected.done =>
        \A i \in 1..Len(selected.recommended) :
            /\ selected.recommended[i].Amount <= maxSwapAmount
            /\ (amount >= minSwapAmount /\ minSwapAmount <= maxSwapAmount)
                   => selected.recommended[i].Amount >= minSwapAmount

\* selectSingleSwap split an amount above the maximum over two channels: the
\* maximum over the first and the rest, above the minimum, over the second.
C15_Witness ==
    /\ selected.done
    /\ amount = 150
    /\ minSwapAmount = 10
    /\ maxSwapAmount = 100
    /\ selected.recommended = <<newSwapRecommendation(100, 1),
                                newSwapRecommendation(50, 2)>>

\* The sum of the recommended amounts.
RECURSIVE SumAmounts(_)
SumAmounts(recs) ==
    IF recs = <<>> THEN 0
    ELSE recs[1].Amount + SumAmounts(Tail(recs))

\* C16: the recommended amounts add up to at most the amount asked for.
C16_SumWithinTarget ==
    selected.done => SumAmounts(selected.recommended) <= amount

\* selectSingleSwap recommended a swap and less than the amount asked for:
\* what is left is below the minimum.
C16_Witness ==
    /\ selected.done
    /\ Len(selected.passed) = 2
    /\ Len(selected.recommended) = 1
    /\ SumAmounts(selected.recommended) > 0
    /\ SumAmounts(selected.recommended) < amount

\* The number of elements of a list that are of the channel.
OfChannel(list, chan, field) ==
    Cardinality({i \in 1..Len(list) : list[i][field] = chan})

\* C17: for each channel there are at most as many recommendations as
\* entries in the input, so none has two when the input channels are
\* distinct, and the output is not longer than the input.
C17_OneSwapPerChannel ==
    selected.done =>
        /\ Len(selected.recommended) <= Len(selected.passed)
        /\ \A chan \in 1..MaxChannels :
               OfChannel(selected.recommended, chan, "Channel")
                   <= OfChannel(selected.passed, chan, "channel")

\* selectSingleSwap recommended a swap over each of two distinct channels.
C17_Witness ==
    /\ selected.done
    /\ Len(selected.passed) = 2
    /\ selected.passed[1].channel # selected.passed[2].channel
    /\ Len(selected.recommended) = 2
    /\ selected.recommended[1].Channel # selected.recommended[2].Channel

\* The quoted server fee is at most suggestion amount * MaximumSwapFeePPM /
\* 1,000,000 rounded down.
WithinSwapFeeLimit ==
    quote.swap * FeeBase <= suggestionAmt * feeParams.MaximumSwapFeePPM

\* C18 as stated: checkFeeLimits succeeds exactly when the server fee, the
\* miner fee and the prepay are each at most their limit, and reports the
\* server fee first, then the miner fee, then the prepay.
C18_FeeLimitsCharacterised ==
    feeErr # "none" =>
        feeErr =
            IF ~WithinSwapFeeLimit THEN "errInsufficientSwapFee"
            ELSE IF quote.miner > feeParams.MaximumMinerFee
                 THEN "errInsufficientMinerFee"
            ELSE IF quote.prepay > feeParams.MaximumPrepay
                 THEN "errInsufficientPrepay"
            ELSE "nil"

\* The fee errors of checkFeeLimits.
FeeErrors ==
    {"errInsufficientSwapFee", "errInsufficientMinerFee",
     "errInsufficientPrepay"}

\* The suggestions that were quoted within the fee limits, in order.
WithinLimits(tentative) ==
    LET kept == SelectSeq(tentative, LAMBDA t : t.feeErr = "nil")
    IN  [i \in 1..Len(kept) |-> kept[i].suggestion]

\* C19: a quote above a fee limit is no error of SuggestSwaps, and a
\* SuggestSwaps that returned without error returned exactly the suggestions
\* whose quote was within the limits.
C19_FeesTooHighOmitted ==
    \A c \in Callers :
        (lop[c] = "SuggestSwaps" /\ lpc[c] = "idle" /\ ~lnoRules[c]) =>
            /\ lerr[c] \notin FeeErrors
            /\ lerr[c] = "nil" => lsugg[c] = WithinLimits(ltent[c])

\* SuggestSwaps returned the suggestion for the second channel alone, without
\* error, after the quote for the first was above a fee limit.
C19_Witness ==
    \E c \in Callers :
        /\ lop[c] = "SuggestSwaps"
        /\ lpc[c] = "idle"
        /\ lerr[c] = "nil"
        /\ Len(ltent[c]) = 2
        /\ ltent[c][1].feeErr \in FeeErrors
        /\ ltent[c][2].feeErr = "nil"
        /\ lsugg[c] = <<ltent[c][2].suggestion>>

\* The step in which the caller's SuggestSwaps returns an error returns no
\* suggestion, releases the lock and leaves the stored parameters as they
\* were when the call began.
FailedSuggestion(c) ==
    (/\ lop[c] = "SuggestSwaps"
     /\ lpc[c] # "idle"
     /\ lpc'[c] = "idle"
     /\ lerr'[c] # "nil")
        => /\ lsugg'[c] = <<>>
           /\ paramsLock' = "free"
           /\ lparams' = lparams
           /\ ChannelParamsVal(lparams', mheap', theap') = lsnap[c]

\* The step of run in which ListChannels fails for the suggestion request it
\* is handling answers the request with the error and no suggestion, leaves
\* the stored parameters as they are and takes run back to its select,
\* where it receives the next request.
FailedListing ==
    (loop = "ListChannels" /\ loop' \notin {"ListChannels", "suggestSwaps"})
        => /\ loop' = "select"
           /\ cur \in Callers =>
                  resp'[cur] = SuggestResponse("ErrListChannels", NIL)
           /\ mparams' = mparams
           /\ ParamsVal(mparams', pheap', rheap')
                  = ParamsVal(mparams, pheap, rheap)

\* The step in which the caller's SuggestSwap returns the answer of a request
\* whose ListChannels failed returns that error and no suggestion, after one
\* external call, and leaves the stored parameters as they are.
FailedSuggestSwap(c) ==
    (/\ kind[c] = "suggest"
     /\ pc[c] = "await"
     /\ pc'[c] = "idle"
     /\ extCalls[c] = 1
     /\ resp[c] # NoResponse
     /\ resp[c][1].err \notin {"nil", "ErrNoRules"})
        => /\ err'[c] = "ErrListChannels"
           /\ retRule'[c] = NIL
           /\ mparams' = mparams
           /\ ParamsVal(mparams', pheap', rheap')
                  = ParamsVal(mparams, pheap, rheap)

\* C20: a SuggestSwaps in which an external call fails returns the error and
\* no suggestion, the stored parameters are unchanged, and the lock is held
\* by no call that returned, so that later calls are served; in the
\* control-loop manager a suggestion request whose ListChannels fails is
\* answered with the error and no suggestion, the stored parameters are
\* unchanged by it, and run is back at its select for the next request.
C20_UpstreamFailureAborts ==
    /\ [][\A c \in Callers : FailedSuggestion(c)]_vars
    /\ [](\A c \in Callers : paramsLock = c => lpc[c] # "idle")
    /\ [][FailedListing /\ \A c \in Callers : FailedSuggestSwap(c)]_vars

\* A caller's SuggestSwaps returned the error of a quote after a suggestion
\* for an earlier channel was within the limits, returning none, and its
\* next call, GetParameters, returned without error.
C20_Witness ==
    \E c \in Callers :
        /\ lop[c] = "GetParameters"
        /\ lpc[c] = "idle"
        /\ lerr[c] = "nil"
        /\ ltent[c] # <<>>
        /\ ltent[c][1].feeErr = "nil"
        /\ lsugg[c] = <<>>

\* In the control-loop manager a caller's SuggestSwap returned the error of
\* ListChannels while parameters were stored, and run, which handles one
\* request at a time, has since received the lookup of another caller and
\* is sending it those parameters.
C20_LaterRequestServed ==
    \E c, d \in Callers :
        /\ c # d
        /\ kind[c] = "suggest" /\ pc[c] = "idle"
        /\ err[c] = "ErrListChannels"
        /\ kind[d] = "lookup" /\ pc[d] = "await"
        /\ loop = "response" /\ cur = d
        /\ mparams # NIL
        /\ ParamsVal(mparams, pheap, rheap) = storedVal

\* The outcome that C21 gives a pair of balances and thresholds: the ratios
\* are compared with the minimums as fractions of the capacity.
Classified(b, minIn, minOut) ==
    LET inBelow == b.incoming * One < minIn * b.capacity
        outBelow == b.outgoing * One < minOut * b.capacity
    IN  IF b.capacity = 0 THEN <<ActionNone, ReasonNoCapacity>>
        ELSE IF inBelow /\ outBelow THEN <<ActionNone, ReasonNoSurplus>>
        ELSE IF inBelow THEN <<ActionLoopOut, ReasonImbalanced>>
        ELSE IF outBelow THEN <<ActionLoopIn, ReasonImbalanced>>
        ELSE <<ActionNone, ReasonLiquidityOk>>

\* C21: shouldSwap returns (None, NoCapacity) without capacity, (None,
\* NoSurplus) when both ratios are below their minimum, (LoopOut,
\* Imbalanced) when only the inbound ratio is, (LoopIn, Imbalanced) when
\* only the outbound ratio is, and (None, LiquidityOk) otherwise; a ratio
\* equal to its minimum is not a deficit.
C21_ShouldSwapClassifies ==
    decision # NotDecided =>
        <<decision.action, decision.reason>>
            = Classified(swapBalances, swapMinIn, swapMinOut)

\* shouldSwap ran on balances whose inbound ratio equals its minimum and
\* whose outbound ratio is below its minimum, and recommended a loop in.
C21_Witness ==
    /\ decision = [action |-> ActionLoopIn, reason |-> ReasonImbalanced]
    /\ swapBalances.capacity > 0
    /\ swapBalances.incoming * One = swapMinIn * swapBalances.capacity
    /\ swapMinIn > 0

\* The quantities that C22 names, for the arguments a given in hundredths.
Required(a) == Minus(Hundredths(a.deficitMinimum),
                     Hundredths(a.deficitCurrent))

Available(a) == Minus(Hundredths(a.surplusCurrent),
                      Hundredths(a.surplusMinimum))

MidpointDelta(a) ==
    Minus(Halved(Plus(Hundredths(a.deficitMinimum),
                      Minus(float32(1), Hundredths(a.surplusMinimum)))),
          Hundredths(a.deficitCurrent))

\* C22: calculateSwapRatio returns half of the available surplus when it
\* does not exceed the required shift, the distance to the midpoint when
\* the surplus exceeds the required shift and covers that distance, and
\* the required shift otherwise.
C22_SwapRatioCases ==
    \A i \in 1..Len(shifts) :
        LET a == shifts[i].args
            ratio == shifts[i].ratio
        IN  /\ LessEq(Available(a), Required(a))
                   => ratio = Halved(Available(a))
            /\ (/\ Less(Required(a), Available(a))
                /\ LessEq(MidpointDelta(a), Available(a)))
                   => ratio = MidpointDelta(a)
            /\ (/\ Less(Required(a), Available(a))
                /\ Less(Available(a), MidpointDelta(a)))
                   => ratio = Required(a)

\* calculateSwapRatio ran for a node whose capacity is all local under
\* thresholds of 10%, and its ratio shifts 500 of a capacity of 1000.
C22_Witness ==
    \E i \in 1..Len(shifts) :
        /\ shifts[i].args = [deficitCurrent |-> 0, deficitMinimum |-> 10,
                             surplusCurrent |-> One, surplusMinimum |-> 10]
        /\ Amount(Times(float32(1000), shifts[i].ratio), 0) = 500

\* Two calls of calculateSwapRatio with the same current and minimum ratio
\* on the side of the deficit, the second with the larger available surplus.
MoreAvailable(i, j) ==
    /\ shifts[i].args.deficitCurrent = shifts[j].args.deficitCurrent
    /\ shifts[i].args.deficitMinimum = shifts[j].args.deficitMinimum
    /\ Less(Available(shifts[i].args), Available(shifts[j].args))

\* C23 as stated: with the same deficitCurrent and deficitMinimum, a larger
\* available surplus never gives a smaller ratio.
C23_MonotonicInSurplus ==
    \A i, j \in 1..Len(shifts) :
        MoreAvailable(i, j) => LessEq(shifts[i].ratio, shifts[j].ratio)

\* C23, amended: with the same deficitCurrent, deficitMinimum and
\* surplusMinimum, a larger available surplus never gives a smaller ratio.
C23_MonotonicForOneMinimum ==
    \A i, j \in 1..Len(shifts) :
        /\ MoreAvailable(i, j)
        /\ shifts[i].args.surplusMinimum = shifts[j].args.surplusMinimum
        => LessEq(shifts[i].ratio, shifts[j].ratio)

\* Two calls with the same thresholds and deficit: the first cannot reach
\* the midpoint and shifts the required ratio, the second has more surplus
\* and shifts more, to the midpoint.
C23_Witness ==
    \E i, j \in 1..Len(shifts) :
        /\ MoreAvailable(i, j)
        /\ shifts[i].args.surplusMinimum = shifts[j].args.surplusMinimum
        /\ shifts[i].ratio = Required(shifts[i].args)
        /\ shifts[j].ratio = MidpointDelta(shifts[j].args)
        /\ Less(shifts[i].ratio, shifts[j].ratio)

\* The action that the balances handed to getSwaps call for, by C21.
ActionFor == Classified(TotalBalance(balanceList), swapRule.MinimumInbound,
                        swapRule.MinimumOutbound)[1]

\* The restrictions of the direction of that action.
RestrictionsFor == IF ActionFor = ActionLoopOut THEN restrictOut ELSE restrictIn

\* shiftRatio * total capacity for that action, by C22.
AmountFor ==
    LET total == TotalBalance(balanceList)
        minIn == Hundredths(swapRule.MinimumInbound)
        minOut == Hundredths(swapRule.MinimumOutbound)
        inbound == Quotient(total.incoming, total.capacity)
        outbound == Quotient(total.outgoing, total.capacity)
    IN  Times(float32(total.capacity),
              IF ActionFor = ActionLoopOut
              THEN calculateSwapRatio(inbound, minIn, outbound, minOut)
              ELSE calculateSwapRatio(outbound, minOut, inbound, minIn))

\* C27: a swap set with a recommendation has action LoopOut or LoopIn and
\* reason Imbalanced; action None carries no recommendation; reason
\* MinimumAmount is returned, with the action kept and no recommendation,
\* exactly when shiftRatio * total capacity is below the MinimumAmount of
\* the restrictions of the direction.
C27_SwapSetShape ==
    swapSet.done =>
        /\ swapSet.set.Swaps # <<>>
               => /\ swapSet.set.Action \in {ActionLoopOut, ActionLoopIn}
                  /\ swapSet.set.Reason = ReasonImbalanced
        /\ swapSet.set.Action = ActionNone => swapSet.set.Swaps = <<>>
        /\ swapSet.set.Reason = ReasonMinimumAmount
               <=> /\ ActionFor # ActionNone
                   /\ Less(AmountFor, float32(RestrictionsFor.MinimumAmount))
        /\ swapSet.set.Reason = ReasonMinimumAmount
               => /\ swapSet.set.Action = ActionFor
                  /\ swapSet.set.Swaps = <<>>

\* getSwaps found an imbalance whose amount is below the minimum swap amount
\* and kept the action without a recommendation.
C27_Witness ==
    /\ swapSet.done
    /\ swapSet.set.Action = ActionLoopOut
    /\ swapSet.set.Reason = ReasonMinimumAmount
    /\ swapSet.set.Swaps = <<>>
    /\ Less(Zero, AmountFor)

\* The balance of a channel on the side that a swap of the action draws
\* from, and the minimum of the rule for that side, in hundredths.
SurplusSide(b) == IF ActionFor = ActionLoopIn THEN b.incoming ELSE b.outgoing

SurplusMinimum ==
    IF ActionFor = ActionLoopIn THEN swapRule.MinimumInbound
    ELSE swapRule.MinimumOutbound

\* The surplus of a channel on that side, as a ratio and as an amount.
OwnSurplus(b) ==
    Minus(Quotient(SurplusSide(b), b.capacity), Hundredths(SurplusMinimum))

OwnSurplusAmount(b) ==
    Amount(Times(float32(b.capacity), OwnSurplus(b)), swapSet.nan)

\* The balances b are not below the minimum of the surplus side once amt
\* has left that side.
StillAboveMinimum(b, amt) ==
    ~Less(Quotient(SurplusSide(b) - amt, b.capacity),
          Hundredths(SurplusMinimum))

\* The recommendation is placed on a channel with surplus and leaves it its
\* minimum.
WithinOwnSurplus(rec) ==
    LET b == balanceList[rec.Channel]
    IN  /\ Less(Zero, OwnSurplus(b))
        /\ rec.Amount <= OwnSurplusAmount(b)
        /\ StillAboveMinimum(b, rec.Amount)

\* C28: every recommendation of getSwaps is placed on a channel with
\* strictly positive surplus in the direction of the swap and does not
\* exceed that surplus; the recommendations together do not exceed
\* shiftRatio * total capacity; after all of them neither a used channel
\* nor the total is below the minimum of the surplus side.
C28_SwapsWithinSurplus ==
    swapSet.done =>
        /\ \A i \in 1..Len(swapSet.set.Swaps) :
               WithinOwnSurplus(swapSet.set.Swaps[i])
        /\ swapSet.set.Swaps # <<>>
               => /\ LessEq(float32(SumAmounts(swapSet.set.Swaps)),
                            AmountFor)
                  /\ StillAboveMinimum(TotalBalance(balanceList),
                                       SumAmounts(swapSet.set.Swaps))

\* C28 for lists of channels that all have capacity.
C28_SwapsWithinSurplusOfFunded ==
    (\A i \in 1..Len(balanceList) : balanceList[i].capacity > 0)
        => C28_SwapsWithinSurplus

C30_NoRatioOfZeroCapacity ==
    swapSet.done =>
        \A i \in 1..Len(swapSet.invoked) : swapSet.invoked[i].capacity # 0

\* The position in chans of the channel that the greedy reference visits
\* k-th: channels with more surplus come first, and of two channels with
\* the same surplus the one that is first in chans.
VisitedAt(chans, k) ==
    CHOOSE i \in 1..Len(chans) :
        Cardinality({j \in 1..Len(chans) :
                        \/ chans[j].amount > chans[i].amount
                        \/ chans[j].amount = chans[i].amount /\ j < i})
            = k - 1

Least(set) == CHOOSE x \in set : \A y \in set : x <= y

\* The greedy reference from the k-th visit on, with the target remaining.
RECURSIVE Greedy(_, _, _, _, _)
Greedy(chans, k, remaining, minSwap, maxSwap) ==
    IF k > Len(chans) THEN <<>>
    ELSE LET channel == chans[VisitedAt(chans, k)]
             given == Least({channel.amount, remaining, maxSwap})
         IN  IF channel.amount < minSwap
             THEN Greedy(chans, k + 1, remaining, minSwap, maxSwap)
             ELSE <<[Amount |-> given, Channel |-> channel.channel]>>
                  \o (IF remaining - given < minSwap THEN <<>>
                      ELSE Greedy(chans, k + 1, remaining - given, minSwap,
                                  maxSwap))

\* C26: selectSingleSwap returns what the greedy reference returns: the
\* channels are visited from most to least surplus, ties in input order; a
\* channel with less than minSwap is skipped; a visited channel receives
\* the least of its surplus, the remaining target and maxSwap; the visit
\* stops once the remaining target is below minSwap.
C26_EqualsGreedyReference ==
    selected.done =>
        selected.recommended
            = Greedy(selected.passed, 1, amount, minSwapAmount,
                     maxSwapAmount)

\* selectSingleSwap ran on two channels with surplus 200 each, target 150
\* and bounds [10, 100], and recommended 100 over channel 1 and 50 over
\* channel 2.
C26_Witness ==
    /\ selected.passed = <<channelSurplus(200, 1), channelSurplus(200, 2)>>
    /\ amount = 150
    /\ minSwapAmount = 10
    /\ maxSwapAmount = 100
    /\ selected.done
    /\ selected.recommended = <<newSwapRecommendation(100, 1),
                                newSwapRecommendation(50, 2)>>

\* C24: the control loop serves requests in the order in which their calls
\* began: of two calls that are both served, the one that began first is
\* served first.
C24_ServedInArrivalOrder ==
    \A i, j \in 1..Len(order.received) :
        i < j => order.received[i] < order.received[j]


\* The rules the control-loop manager holds in its stored parameters.
StoredRules ==
    IF mparams = NIL THEN {}
    ELSE {pheap[mparams].NodeRule, pheap[mparams].PeerRule} \ {NIL}

\* C25 as stated: in every state every rule held in the stored parameters of
\* the manager passes validate (both thresholds within [0, 1], their sum
\* below 1) and no key of the stored ChannelRules is the zero channel ID.
C25_StoredRulesValid ==
    /\ \A a \in StoredRules : RatioRule_validate(rheap[a]) = "nil"
    /\ ChannelRules_errors(mheap[lparams.ChannelRules], theap) = {}


\* Balances with incoming and outgoing exchanged.
Exchanged(b) == balances(b.capacity, b.outgoing, b.incoming, b.channelID)

\* A list of balances with incoming and outgoing exchanged on every channel.
ExchangedList(channelBalances) ==
    [i \in 1..Len(channelBalances) |-> Exchanged(channelBalances[i])]

\* A rule with MinimumInbound and MinimumOutbound exchanged.
ExchangedRule(r) == NewRatioRule(r.MinimumOutbound, r.MinimumInbound)

\* The action in the other direction.
Opposite(action) ==
    IF action = ActionLoopOut THEN ActionLoopIn
    ELSE IF action = ActionLoopIn THEN ActionLoopOut
    ELSE action

\* getSwaps on the inputs of the call with both sides exchanged, on the same
\* build.
ExchangedSwaps ==
    getSwaps(ExchangedRule(swapRule), ExchangedList(balanceList), restrictIn,
             restrictOut, swapSet.nan)

\* C31: getSwaps on balances with incoming and outgoing exchanged on every
\* channel, a rule with its minimums exchanged and the restrictions
\* exchanged returns the opposite action, the same reason and the same
\* recommendations.
C31_SymmetricUnderExchange ==
    swapSet.done =>
        ExchangedSwaps = newSwapSet(Opposite(swapSet.set.Action),
                                    swapSet.set.Reason, swapSet.set.Swaps)

\* getSwaps recommended a loop in, under restrictions that differ by
\* direction and a rule whose minimums differ, and the exchanged call
\* recommends a loop out of the same channel and amount.
C31_Witness ==
    /\ swapSet.done
    /\ swapSet.set.Action = ActionLoopIn
    /\ swapSet.set.Swaps # <<>>
    /\ restrictIn # restrictOut
    /\ swapRule.MinimumInbound # swapRule.MinimumOutbound
    /\ ExchangedSwaps.Action = ActionLoopOut
    /\ ExchangedSwaps.Swaps = swapSet.set.Swaps


\* The channels that the configuration includes: all of them with
\* IncludePrivate, the public ones without it.
IncludedChannels(p) ==
    SelectSeq(scopeChannels, LAMBDA c : c.Private => p.IncludePrivate)

\* The balances of the included channels of a peer, in their order.
BalancesOfPeer(p, peer) ==
    LET own == SelectSeq(IncludedChannels(p),
                         LAMBDA c : c.PubKeyBytes = peer)
    IN  [i \in 1..Len(own) |-> ChannelBalances(own[i])]

\* The balances of all included channels, in their order.
BalancesOfNode(p) ==
    [i \in 1..Len(IncludedChannels(p)) |->
        ChannelBalances(IncludedChannels(p)[i])]

\* The peers with an included channel.
IncludedPeers(p) ==
    {IncludedChannels(p)[i].PubKeyBytes : i \in 1..Len(IncludedChannels(p))}

\* getSwaps of the rule on a list of balances, under the restrictions of the
\* configuration and on the build of the call.
SwapsOf(rule, list) ==
    getSwaps(rule, list, restrictOut, restrictIn, scopeResult.nan)

\* suggestSwaps returned ErrNoRules and no suggestion.
NoRulesReturned ==
    /\ scopeResult.result.err = "ErrNoRules"
    /\ scopeResult.result.Suggestions = <<>>

\* With parameters p set, suggestSwaps applied the rule by its scope.
AppliedByScope(p) ==
    LET result == scopeResult.result
    IN  /\ p.NodeRule # <<>> =>
              /\ result.err = "nil"
              /\ result.Suggestions =
                     <<SwapsOf(p.NodeRule[1], BalancesOfNode(p))>>
        /\ (p.NodeRule = <<>> /\ p.PeerRule # <<>>) =>
              /\ result.err = "nil"
              /\ Len(result.Suggestions) = Cardinality(IncludedPeers(p))
              /\ Len(scopeResult.visited) = Cardinality(IncludedPeers(p))
              /\ \A peer \in IncludedPeers(p) :
                    \E i \in 1..Len(result.Suggestions) :
                        /\ scopeResult.visited[i] = peer
                        /\ result.Suggestions[i] =
                               SwapsOf(p.PeerRule[1], BalancesOfPeer(p, peer))
        /\ (p.NodeRule = <<>> /\ p.PeerRule = <<>>) => NoRulesReturned

\* C32 as stated: with a NodeRule suggestSwaps returns one SwapSet computed
\* from all included channels, with a PeerRule one SwapSet per peer with an
\* included channel, computed from the channels of that peer, a private
\* channel is included exactly with IncludePrivate, and with neither rule
\* set, which is also the case before any parameters were set, it returns
\* ErrNoRules.
C32_RuleAppliedByScope ==
    scopeResult.done =>
        IF scopeParams = <<>> THEN NoRulesReturned
        ELSE AppliedByScope(scopeParams[1])

\* Once parameters have been set, suggestSwaps applies the rule by scope.
C32_RuleAppliedByScopeOnceSet ==
    (scopeResult.done /\ scopeParams # <<>>) => AppliedByScope(scopeParams[1])


\* The channel IDs of the channels that getEligibleChannels returned to the
\* caller's SuggestSwaps: those of the channels of lnd that its list of
\* existing swaps leaves eligible.
EligibleIDs(c) ==
    LET r == getEligibleChannels(clockNow, lallSwaps[c],
                                 <<channel1, channel2>>, FALSE)
    IN  {r.channels[i].ChannelID : i \in 1..Len(r.channels)}

\* The channel IDs with a rule in the ChannelRules that the caller's
\* SuggestSwaps ran with.
RuledIDs(c) == DOMAIN lsnap[c][6]

\* C33: every recommendation that the lock-based SuggestSwaps has collected
\* or returned is for an eligible channel with a rule in ChannelRules, and
\* no channel has more than one.
C33_OnlyEligibleRuledChannels ==
    \A c \in Callers :
        (/\ lop[c] = "SuggestSwaps"
         /\ lpc[c] \in {"rules", "LoopOutQuote", "idle"}) =>
            /\ \A i \in 1..Len(lsugg[c]) :
                  /\ Len(lsugg[c][i].Channels) = 1
                  /\ lsugg[c][i].Channels[1] \in EligibleIDs(c)
                  /\ lsugg[c][i].Channels[1] \in RuledIDs(c)
            /\ \A i, j \in 1..Len(lsugg[c]) :
                  i # j => lsugg[c][i].Channels # lsugg[c][j].Channels

\* SuggestSwaps returned one recommendation, for the channel with a rule,
\* while both channels of lnd were eligible and the rule of the other one
\* would have suggested a swap had it been set.
C33_Witness ==
    \E c \in Callers :
        /\ lop[c] = "SuggestSwaps"
        /\ lpc[c] = "idle"
        /\ lerr[c] = "nil"
        /\ EligibleIDs(c) = {1, 2}
        /\ RuledIDs(c) = {2}
        /\ Len(lsugg[c]) = 1
        /\ lsugg[c][1].Channels = <<2>>


\* The steps in which run receives and handles the lookup of the caller c
\* leave the stored parameters as they are.
LookupStoresNothing(c) ==
    (/\ kind[c] = "lookup"
     /\ \/ pc[c] = "enqueue" /\ pc'[c] = "await"
        \/ pc[c] = "await" /\ cur = c /\ loop \in {"paramRequests", "response"}
            /\ loop' # loop) =>
        /\ mparams' = mparams
        /\ ParamsVal(mparams', pheap', rheap')
               = ParamsVal(mparams, pheap, rheap)

\* The step in which the lookup of the caller c returns what run answered
\* returns ErrNoParameters exactly if no parameters had been set when run
\* received it.
LookupFailsUnset(c) ==
    (kind[c] = "lookup" /\ pc[c] = "await" /\ pc'[c] = "idle"
     /\ err'[c] \in {"nil", "ErrNoParameters"}) =>
        (err'[c] = "ErrNoParameters" <=> StoredFor(c) = <<>>)

\* The step in which the lookup of the caller c returns parameters returns
\* the value of the most recently applied update.
LookupReturnsApplied(c) ==
    (kind[c] = "lookup" /\ pc[c] = "await" /\ pc'[c] = "idle"
     /\ err'[c] = "nil") =>
        ParamsVal(ret'[c], pheap', rheap') = StoredFor(c)

\* C34 as stated: UpdateParameters(nil) never changes the stored parameters,
\* returns ErrNoParameters exactly if no parameters have been set, and
\* otherwise returns a value equal to the parameters of the most recently
\* applied update.
C34_NilIsPureLookup ==
    [][\A c \in Callers : /\ LookupStoresNothing(c)
                          /\ LookupFailsUnset(c)
                          /\ LookupReturnsApplied(c)]_vars

\* A lookup stores nothing and fails exactly while no parameters are set.
C34_NilStoresNothing ==
    [][\A c \in Callers : LookupStoresNothing(c) /\ LookupFailsUnset(c)]_vars


\* The step in which run applies the update it received from the caller c
\* stores parameters equal to those the caller passed, in every field.
UpdateReplaces(c) ==
    (/\ kind[c] = "update" /\ pc[c] = "await" /\ cur = c
     /\ loop = "paramRequests" /\ loop' = "response") =>
        ParamsVal(mparams', pheap', rheap') = ParamsVal(arg[c], pheap, rheap)

\* The step in which the update of the caller c returns what run answered
\* returns parameters equal to those the caller passed.
UpdateReturnsOwn(c) ==
    (kind[c] = "update" /\ pc[c] = "await" /\ pc'[c] = "idle"
     /\ err'[c] \notin {"ctx.Err", "ErrShuttingDown"}) =>
        /\ err'[c] = "nil"
        /\ ParamsVal(ret'[c], pheap', rheap') = ParamsVal(arg[c], pheap, rheap)

\* C35: when UpdateParameters(P) with valid P is applied the stored
\* parameters equal P in every field, whatever was stored before, and the
\* call returns a value equal to P, also when the update of another caller
\* is applied before it returns.
C35_ReplacedWholesale ==
    [][\A c \in Callers : UpdateReplaces(c) /\ UpdateReturnsOwn(c)]_vars

\* An update with a node rule alone returned a value equal to what it
\* passed after the update of another caller, with a peer rule and private
\* channels included, had replaced it in the manager.
C35_Witness ==
    \E c, d \in Callers :
        /\ c # d
        /\ kind[c] = "update" /\ pc[c] = "idle" /\ err[c] = "nil"
        /\ kind[d] = "update" /\ applied[d]
        /\ ParamsVal(ret[c], pheap, rheap) = ParamsVal(arg[c], pheap, rheap)
        /\ ParamsVal(ret[c], pheap, rheap)[2] = <<>>
        /\ ParamsVal(mparams, pheap, rheap) = ParamsVal(arg[d], pheap, rheap)
        /\ ParamsVal(mparams, pheap, rheap)[1] = <<>>
        /\ ParamsVal(mparams, pheap, rheap)[3]

----------------------------------------------------------------------------
\* The reply slot of a request and the end of its handling.

\* run is handling a suggestion request it has accepted.
Handling ==
    loop \in {"paramRequests", "response", "ListChannels", "suggestSwaps"}

\* run is back in its select, where it accepts the next request.
Accepting == loop = "select"

\* Whenever run is handling a request, the reply slot of the request is free,
\* so the send of the reply proceeds at once.
ReplyNeverBlocks == Handling => ReplySlotFree

\* C36 as stated: run never blocks while delivering a reply, and it completes
\* the handling of every request it has accepted, also of one whose caller
\* has returned on its cancelled context, and accepts later requests again.
C36_HandlingCompletes ==
    /\ []ReplyNeverBlocks
    /\ Handling ~> Accepting

\* The reply slot is free whenever run is handling a request: no reply ever
\* waits for its caller.
C36_ReplySlotFree == ReplyNeverBlocks

\* Once parameters are stored, run completes the handling of every request
\* it has accepted, abandoned or not.
C36_HandlingCompletesOnceSet ==
    (Handling /\ mparams # NIL) ~> Accepting

\* run is handling a request that its caller has abandoned.
C36_AbandonedHandled == Handling /\ cur = Abandoned

----------------------------------------------------------------------------
\* Resolved swaps and the eligible channels.

\* The swap is in a state that is not pending, and is not a loop out that
\* failed off-chain.
Resolved(x) ==
    /\ ~StateTypePending(x.State)
    /\ ~(x.State = "FailOffchainPayments" /\ x.Type = "out")

\* The list with x put in after its first i entries.
Inserted(list, i, x) ==
    SubSeq(list, 1, i) \o <<x>> \o SubSeq(list, i + 1, Len(list))

\* The list without its i-th entry.
Removed(list, i) ==
    SubSeq(list, 1, i - 1) \o SubSeq(list, i + 1, Len(list))

\* getEligibleChannels on the given swaps, at the reading of the clock and
\* with the answer of lnd of the call that returned last.
EligibleFor(swaps) ==
    ReturnedAt(getEligibleChannels(eligible.readAt, swaps, listedChannels,
                                   listFails), eligible.readAt)

\* C37: a swap that is not pending, other than a loop out that failed
\* off-chain, has no effect on the result of getEligibleChannels: with such
\* a swap added anywhere in the list of existing swaps, or with one taken
\* out of it, the result is the same.
C37_ResolvedSwapsHaveNoEffect ==
    eligible.done =>
        /\ \A x \in {y \in SwapChoices : Resolved(y)} :
               \A i \in 0..Len(allSwaps) :
                   EligibleFor(Inserted(allSwaps, i, x)) = eligible
        /\ \A i \in 1..Len(allSwaps) :
               Resolved(allSwaps[i]) =>
                   EligibleFor(Removed(allSwaps, i)) = eligible

\* C37 happens: with a loop in that failed off-chain restricted to the peer
\* of channel1 and a successful loop out over channels 2 and 3 as the
\* existing swaps, every channel of lnd is eligible.
C37_Witness ==
    /\ eligible.done
    /\ allSwaps = <<NewExistingSwap(0, "FailOffchainPayments", "in", <<>>,
                                    <<"peer1">>),
                    NewExistingSwap(0, "Success", "out", <<2, 3>>, <<>>)>>
    /\ listedChannels = <<channel1, channel2, channel3>>
    /\ eligible.channels = listedChannels
    /\ eligible.err = "nil"

----------------------------------------------------------------------------
\* The order of the existing swaps.

\* The list in the order o of its positions.
Permuted(list, o) == [i \in 1..Len(list) |-> list[o[i]]]

\* Every entry of the list is a loop in or a loop out.
LoopInsAndOuts(list) ==
    \A i \in 1..Len(list) : list[i].Type \in {TypeIn, TypeOut}

\* C38: for existing swaps that are all loop ins or loop outs, the result of
\* getEligibleChannels is the same for every order of the same swaps.
C38_OrderOfSwapsIrrelevant ==
    (eligible.done /\ LoopInsAndOuts(allSwaps)) =>
        \A o \in Orders(1..Len(allSwaps)) :
            EligibleFor(Permuted(allSwaps, o)) = eligible

\* C38 happens: a pending loop out restricted to channel 1 comes before a
\* pending loop in without a last hop; no channel is eligible, as with the
\* loop in first, where the loop returns at the first entry.
C38_Witness ==
    /\ eligible.done
    /\ ~listFails
    /\ allSwaps = <<NewExistingSwap(0, "Initiated", "out", <<1>>, <<>>),
                    NewExistingSwap(0, "Initiated", "in", <<>>, <<>>)>>
    /\ eligible.channels = <<>>
    /\ eligible.err = "nil"
    /\ EligibleFor(<<allSwaps[2], allSwaps[1]>>) = eligible

----------------------------------------------------------------------------
\* The fee limits of the stored parameters.

\* C39 as stated: the parameters stored by the lock-based manager always
\* have a swap fee rate, a prepay limit and a miner fee limit above zero and
\* a confirmation target of at least 2.
C39_StoredLimitsPositive ==
    /\ lparams.MaximumSwapFeePPM > 0
    /\ lparams.MaximumPrepay > 0
    /\ lparams.MaximumMinerFee > 0
    /\ lparams.ConfTarget >= 2

\* The stored parameters always have fee limits other than zero and a
\* confirmation target of at least 2.
C39_StoredLimitsNonZero ==
    /\ lparams.MaximumSwapFeePPM # 0
    /\ lparams.MaximumPrepay # 0
    /\ lparams.MaximumMinerFee # 0
    /\ lparams.ConfTarget >= 2

\* A swap fee rate below zero is stored after a SetParameters that returned
\* without error.
C39_NegativeRateStored ==
    /\ lparams.MaximumSwapFeePPM < 0
    /\ \E c \in Callers :
           lop[c] = "SetParameters" /\ lpc[c] = "idle" /\ lerr[c] = "nil"

====
